---- MODULE Spec2Model ----
(***************************************************************************)
(* Madness Index scoring engine (src/madness_index.js).                    *)
(*                                                                         *)
(* Number representation.  JavaScript numbers that carry fractions (raw    *)
(* metrics, field means and SDs, z-scores, scores, adjustments) are        *)
(* fixed-point integers with ONE standing for 1.0; a division truncates    *)
(* toward zero, so that -(a/b) = (-a)/b as in real arithmetic.  Seeds and  *)
(* hit counts are plain integers.  null and undefined are the value NULL   *)
(* (the code tests both with "== null" or "typeof x !== 'number'").        *)
(***************************************************************************)
EXTENDS Integers, Sequences, FiniteSets, TLC

ONE == 10^4
NULL == 0 - 10^8

IsNum(x) == x # NULL

Abs(x) == IF x < 0 THEN 0 - x ELSE x
Max2(x, y) == IF x >= y THEN x ELSE y

\* a / b on numbers, truncating toward zero
Div(a, b) ==
  IF b = 0 THEN 0
  ELSE LET q == Abs(a) \div Abs(b)
       IN  IF (a < 0) = (b < 0) THEN q ELSE 0 - q

\* fixed-point product and quotient
FMul(a, b) == Div(a * b, ONE)
FDiv(a, b) == Div(a * ONE, b)

\* a decimal literal n/100, e.g. C(60) is 0.60
C(n) == n * (ONE \div 100)

RECURSIVE SqrtIter(_, _, _)
SqrtIter(v, lo, hi) ==
  IF lo >= hi THEN lo
  ELSE LET mid == (lo + hi + 1) \div 2
       IN  IF mid * mid <= v THEN SqrtIter(v, mid, hi) ELSE SqrtIter(v, lo, mid - 1)

\* Math.sqrt on a value in ONE*ONE units, result in ONE units
MathSqrt(v) == IF v <= 0 THEN 0 ELSE SqrtIter(v, 0, 46340)

RECURSIVE SumSeq(_)
SumSeq(s) == IF s = <<>> THEN 0 ELSE s[1] + SumSeq(Tail(s))

\* obj with the fields of upd assigned
Assign(obj, upd) == upd @@ obj

\* the function f with every value computed (an array or object literal)
Eager(f) == f @@ <<>>

(***************************************************************************)
(* Seed / bracket logic helpers                                            *)
(***************************************************************************)
R64_PAIRINGS ==
  << <<1, 16>>, <<8, 9>>, <<5, 12>>, <<4, 13>>,
     <<6, 11>>, <<3, 14>>, <<7, 10>>, <<2, 15>> >>

\* Number(seed): null converts to 0; getNum only yields finite numbers or null
Number(seed) == IF seed = NULL THEN 0 ELSE seed

getSeedPod(seed) ==
  LET s == Number(seed)
  IN  IF s \in {1, 16, 8, 9} THEN "A"
      ELSE IF s \in {5, 12, 4, 13} THEN "B"
      ELSE IF s \in {6, 11, 3, 14} THEN "C"
      ELSE IF s \in {7, 10, 2, 15} THEN "D"
      ELSE "null"

getPodHalf(pod) ==
  IF pod \in {"A", "B"} THEN "top"
  ELSE IF pod \in {"C", "D"} THEN "bottom"
  ELSE "null"

isFirstRoundPair(seedA, seedB) ==
  LET a == Number(seedA)
      b == Number(seedB)
  IN  \E i \in DOMAIN R64_PAIRINGS :
        \/ a = R64_PAIRINGS[i][1] /\ b = R64_PAIRINGS[i][2]
        \/ a = R64_PAIRINGS[i][2] /\ b = R64_PAIRINGS[i][1]

getIntraRegionRoundNoPodCheck(seedA, seedB) ==
  LET a == Number(seedA)
      b == Number(seedB)
      podA == getSeedPod(a)
      podB == getSeedPod(b)
  IN  IF a = b THEN "null"
      ELSE IF podA = "null" \/ podB = "null" THEN "null"
      ELSE IF isFirstRoundPair(a, b) THEN "R64"
      ELSE IF getPodHalf(podA) = getPodHalf(podB) THEN "S16"
      ELSE "E8"

getIntraRegionRound(seedA, seedB) ==
  LET a == Number(seedA)
      b == Number(seedB)
      podA == getSeedPod(a)
      podB == getSeedPod(b)
      halfA == getPodHalf(podA)
      halfB == getPodHalf(podB)
  IN  IF a = b THEN "null"
      ELSE IF podA = "null" \/ podB = "null" THEN "null"
      ELSE IF isFirstRoundPair(a, b) THEN "R64"
      ELSE IF podA = podB THEN "R32"
      ELSE IF halfA # "null" /\ halfB # "null" /\ halfA = halfB THEN "S16"
      ELSE "E8"

ROUND_ORDER == <<"R64", "R32", "S16", "E8", "F4", "Champ">>

\* Array.from(set).sort(by ROUND_ORDER index)
SortRounds(S) == SelectSeq(ROUND_ORDER, LAMBDA r : r \in S)

getPossibleRoundsForSeedsNoEqCheck(seedA, seedB) ==
  LET a == Number(seedA)
      b == Number(seedB)
      intra == IF a # b THEN getIntraRegionRound(a, b) ELSE "R64"
  IN  SortRounds((IF intra # "null" THEN {intra} ELSE {}) \cup {"F4", "Champ"})

getPossibleRoundsForSeeds(seedA, seedB) ==
  LET a == Number(seedA)
      b == Number(seedB)
      intra == IF a # b THEN getIntraRegionRound(a, b) ELSE "null"
  IN  SortRounds((IF intra # "null" THEN {intra} ELSE {}) \cup {"F4", "Champ"})

Includes(seq, x) == \E i \in DOMAIN seq : seq[i] = x

isRoundPossibleForSeeds(seedA, seedB, roundCode) ==
  Includes(getPossibleRoundsForSeeds(seedA, seedB), roundCode)

getSeedRoundMetaLastAsEarliest(seedA, seedB, roundCode) ==
  LET a == Number(seedA)
      b == Number(seedB)
      possible == getPossibleRoundsForSeeds(a, b)
  IN  [seedA |-> a, seedB |-> b, possible |-> possible,
       isAllowed |-> Includes(possible, roundCode),
       earliest |-> IF Len(possible) > 0 THEN possible[Len(possible)] ELSE "null"]

getSeedRoundMeta(seedA, seedB, roundCode) ==
  LET a == Number(seedA)
      b == Number(seedB)
      possible == getPossibleRoundsForSeeds(a, b)
  IN  [seedA |-> a, seedB |-> b, possible |-> possible,
       isAllowed |-> Includes(possible, roundCode),
       earliest |-> IF Len(possible) > 0 THEN possible[1] ELSE "null"]

(***************************************************************************)
(* Interaction primitive                                                   *)
(***************************************************************************)
halfMirroredAdjustInclusive(gap) ==
  LET mag == Abs(gap)
  IN  IF mag <= C(50) THEN 0
      ELSE IF mag < C(100) THEN C(25)
      ELSE C(50)

halfMirroredAdjust(gap) ==
  LET mag == Abs(gap)
  IN  IF mag < C(50) THEN 0
      ELSE IF mag < C(100) THEN C(25)
      ELSE C(50)

(***************************************************************************)
(* Entrant rows.  A row is the parsed CSV row seen through the header      *)
(* index H of buildTeamsFromCSV: internal key -> cell (NULL for an empty   *)
(* or missing cell).                                                       *)
(***************************************************************************)
RAW_KEYS ==
  <<"offeff", "defeff", "adjem", "ts", "efg", "tempo", "epr", "to", "def_efg",
    "pct_pts_2", "pct_pts_3", "pct_pts_ft",
    "threepp", "threepr", "ftr", "scpg", "nb2", "orb", "drb", "blk", "spp",
    "opp_ast_poss", "otpp", "opp_ftr", "opp_3pp", "opp_3pr", "ft_pct",
    "close_win_pct", "w", "l", "sos">>

RawKeySet == {RAW_KEYS[i] : i \in DOMAIN RAW_KEYS}

METRICS_FOR_Z ==
  <<"offeff", "defeff", "adjem", "ts", "efg", "tempo", "epr", "to",
    "threepr", "threepp", "pct_pts_3", "pct_pts_2", "pct_pts_ft",
    "opp_3pr", "opp_3pp", "ftr", "opp_ftr", "ft_pct",
    "nb2", "def_efg", "blk",
    "spp", "otpp", "opp_ast_poss",
    "orb", "drb", "scpg">>

\* Internal keys some CSV header can reach through _normHeader and HEADER_MAP.
\* _normHeader turns "_" into a space, so no header normalises to the map
\* entry 'ft_pct': H.ft_pct is never set.
HEADER_KEYS == (RawKeySet \cup {"name", "seed"}) \ {"ft_pct"}

\* vals lists the cells in RAW_KEYS order, written in hundredths
MkRow(name, seed, vals) ==
  Eager([k \in RawKeySet \cup {"name", "seed"} |->
     IF k = "name" THEN name
     ELSE IF k = "seed" THEN seed
     ELSE LET i == CHOOSE j \in DOMAIN RAW_KEYS : RAW_KEYS[j] = k
          IN  IF vals[i] = NULL THEN NULL ELSE C(vals[i])])

AlphaVals ==
  <<90, 30, 60, 60, 56, 70, 55, 15, 45,
    45, 40, 15,
    40, 50, 35, 12, 90, 35, 75, 12, 10,
    14, 20, 30, 38, 45, 75,
    60, 300, 100, 20>>

CedarVals ==
  <<50, 20, 30, 50, 48, 40, 45, 22, 40,
    55, 25, 20,
    30, 30, 45, 8, 85, 25, 80, 18, 6,
    10, 14, 20, 30, 30, 70,
    50, 100, 300, 60>>

DeltaVals ==
  <<70, NULL, 45, NULL, 52, 90, 40, 25, 50,
    NULL, NULL, NULL,
    NULL, 42, NULL, 10, NULL, 30, NULL, NULL, 8,
    NULL, 25, 40, NULL, 50, NULL,
    NULL, NULL, NULL, 90>>

EchoVals ==
  <<60, 50, 10, 55, 50, 55, 50, 18, 52,
    30, 55, 15,
    28, 45, 25, 9, 80, 20, 70, 8, 12,
    16, 18, 35, 36, 40, 65,
    40, 300, 100, 100>>

BlankVals ==
  <<100, 100, 100, 100, 100, 100, 100, 100, 100,
    100, 100, 100,
    100, 100, 100, 100, 100, 100, 100, 100, 100,
    100, 100, 100, 100, 100, 100,
    100, 900, 0, 100>>

\* The named rows a CSV may contain, in file order.  Bravo has the metrics of
\* Alpha.
POOL ==
  << MkRow("Cedar", 8, CedarVals),
     MkRow("Alpha", 1, AlphaVals),
     MkRow("Bravo", 16, AlphaVals),
     MkRow("Echo", 8, EchoVals),
     MkRow("Delta", NULL, DeltaVals) >>

\* a row whose Team cell is empty
BlankRow == MkRow("", 2, BlankVals)

MaxRows == 3

RECURSIVE PickRows(_, _)
PickRows(idx, i) ==
  IF i > Len(POOL) THEN <<>>
  ELSE (IF i \in idx THEN <<POOL[i]>> ELSE <<>>) \o PickRows(idx, i + 1)

\* the parsed files: any at most MaxRows rows of POOL, in file order, and a
\* last row with an empty Team cell; a file is named by the set of POOL
\* indices of its rows
Files == {S \in SUBSET DOMAIN POOL : Cardinality(S) <= MaxRows}

RowsOf == Eager([f \in Files |-> PickRows(f, 1) \o <<BlankRow>>])

\* String order of the entrant names (Array.prototype.sort on TEAM_LIST)
NameRank(n) ==
  CASE n = "Alpha" -> 1 [] n = "Bravo" -> 2 [] n = "Cedar" -> 3
    [] n = "Delta" -> 4 [] n = "Echo" -> 5 [] OTHER -> 0

RECURSIVE SortNames(_)
SortNames(s) ==
  IF s = <<>> THEN <<>>
  ELSE LET m == CHOOSE i \in DOMAIN s : \A j \in DOMAIN s :
                  NameRank(s[i]) < NameRank(s[j]) \/ (NameRank(s[i]) = NameRank(s[j]) /\ i <= j)
       IN  <<s[m]>> \o SortNames([k \in 1..(Len(s) - 1) |-> IF k < m THEN s[k] ELSE s[k + 1]])

(***************************************************************************)
(* Utility functions                                                       *)
(***************************************************************************)
computeMean(arr) ==
  IF Len(arr) = 0 THEN 0 ELSE Div(SumSeq(arr), Len(arr))

\* computeSD, were it the sample SD (divide by N - 1)
computeSDSample(arr, mean) ==
  IF Len(arr) < 2 THEN 0
  ELSE LET v == Div(SumSeq([i \in DOMAIN arr |-> (arr[i] - mean) * (arr[i] - mean)]), Len(arr) - 1)
       IN  MathSqrt(v)

computeSD(arr, mean) ==
  IF Len(arr) = 0 THEN 0
  ELSE LET v == Div(SumSeq([i \in DOMAIN arr |-> (arr[i] - mean) * (arr[i] - mean)]), Len(arr))
       IN  MathSqrt(v)

zScore(val, mean, sd) ==
  IF val = NULL \/ sd = 0 THEN 0 ELSE FDiv(val - mean, sd)

\* FIELD_STATS is passed as FS
orientAndZ(FS, team, key, orientation) ==
  IF key \notin DOMAIN FS THEN 0
  ELSE LET fs == FS[key]
           v == team[key]
       IN  IF v = NULL THEN 0
           ELSE zScore(IF orientation = "invert" THEN fs.mean * 2 - v ELSE v, fs.mean, fs.sd)

\* getZ without the test of the entrant's value (null counts as 0 in the
\* reflection around the mean)
getZNoValueGuard(FS, team, key, inverted) ==
  IF key \notin DOMAIN FS THEN 0
  ELSE LET fs == FS[key]
           v == team[key]
       IN  zScore(IF inverted THEN fs.mean * 2 - Number(v) ELSE v, fs.mean, fs.sd)

getZ(FS, team, key, inverted) ==
  IF key \notin DOMAIN FS THEN 0
  ELSE LET fs == FS[key]
           v == team[key]
       IN  IF v = NULL THEN 0
           ELSE zScore(IF inverted THEN fs.mean * 2 - v ELSE v, fs.mean, fs.sd)

getTierPointsFromZ(z) ==
  IF z >= C(100) THEN C(200)
  ELSE IF z >= C(80) THEN C(150)
  ELSE IF z >= C(60) THEN C(100)
  ELSE IF z >= 0 THEN C(50)
  ELSE 0

getTierLabelFromZ(z) ==
  IF z >= C(100) THEN "Elite"
  ELSE IF z >= C(80) THEN "Strong"
  ELSE IF z >= C(60) THEN "Above Average"
  ELSE IF z >= 0 THEN "Average"
  ELSE IF z >= 0 - C(80) THEN "Weak"
  ELSE "Fragile"

(***************************************************************************)
(* Entrant collection.  TEAMS is the object keyed by name, kept as the     *)
(* sequence of its values in insertion order (Object.values order).  A     *)
(* field a team object does not have yet is NULL ("undefined" for a tier). *)
(***************************************************************************)
CORE_KEYS == <<"offeff", "defeff", "adjem", "ts", "efg", "def_efg", "epr", "to">>
CoreKeySet == {CORE_KEYS[i] : i \in DOMAIN CORE_KEYS}

NoCoreZ == [k \in CoreKeySet |-> NULL]

Underived ==
  [wp |-> NULL, P |-> NULL,
   coreZ |-> NoCoreZ, coreTierPts |-> NoCoreZ, mibs |-> NULL, coreDetails |-> <<>>,
   breadthEffHits |-> NULL, breadthShootHits |-> NULL, breadthPossHits |-> NULL,
   breadthTotalHits |-> NULL, breadth |-> NULL, breadthHits |-> NULL,
   resumeIndex |-> NULL, resumeR |-> NULL, resumeRTier |-> "undefined",
   profileMarks |-> <<>>, mi_base |-> NULL,
   mi_matchup |-> NULL, mi_int_raw |-> NULL, mi_int |-> NULL, mi_int_rFact |-> NULL,
   cis_raw |-> NULL, fas_raw |-> NULL, performancePercentile |-> NULL, mi_rating |-> NULL,
   coreStrongCount |-> NULL, coreWeakCount |-> NULL, coreStrongFrac |-> NULL,
   coreWeakFrac |-> NULL, cisStatic |-> NULL, fasStatic |-> NULL]

HasTeam(teams, name) == \E i \in DOMAIN teams : teams[i].name = name
TeamIndex(teams, name) == CHOOSE i \in DOMAIN teams : teams[i].name = name

\* TEAMS[team.name] = team
PutTeam(teams, team) ==
  IF HasTeam(teams, team.name)
  THEN [teams EXCEPT ![TeamIndex(teams, team.name)] = team]
  ELSE Append(teams, team)

NonNull(seq) == SelectSeq(seq, LAMBDA v : v # NULL)

\* the team objects built by the row loop of buildTeamsFromCSV
getNum(row, key) == IF key \notin HEADER_KEYS THEN NULL ELSE row[key]

RECURSIVE BuildTeams(_, _)
BuildTeams(rows, teams) ==
  IF rows = <<>> THEN teams
  ELSE LET row == rows[1]
           team == Assign([k \in DOMAIN row |-> IF k = "name" THEN row.name ELSE getNum(row, k)],
                          Underived)
       IN  IF team.name = "" THEN BuildTeams(Tail(rows), teams)
           ELSE BuildTeams(Tail(rows), PutTeam(teams, team))

RECURSIVE BuildTeamList(_)
BuildTeamList(rows) ==
  IF rows = <<>> THEN <<>>
  ELSE (IF rows[1].name = "" THEN <<>> ELSE <<rows[1].name>>) \o BuildTeamList(Tail(rows))

(***************************************************************************)
(* Field Statistics Aggregator                                             *)
(***************************************************************************)
SeqMin(s) == CHOOSE x \in {s[i] : i \in DOMAIN s} : \A j \in DOMAIN s : x <= s[j]
SeqMax(s) == CHOOSE x \in {s[i] : i \in DOMAIN s} : \A j \in DOMAIN s : x >= s[j]

StatOf(arr) == LET mean == computeMean(arr) IN [mean |-> mean, sd |-> computeSD(arr, mean)]

\* computeFieldStats with the normalised schedule value itself taken as P
\* (highest raw value -> 1)
computeFieldStatsUninverted(teams) ==
  LET vals(key) == NonNull([i \in DOMAIN teams |-> teams[i][key]])
      zKeys == {METRICS_FOR_Z[i] : i \in DOMAIN METRICS_FOR_Z}
      fsZ == Eager([key \in {k \in zKeys : Len(vals(k)) > 0} |-> StatOf(vals(key))])
      withWp == Eager([i \in DOMAIN teams |->
                   LET t == teams[i]
                   IN  IF t.w # NULL /\ t.l # NULL /\ t.w + t.l > 0
                       THEN Assign(t, [wp |-> FDiv(t.w, t.w + t.l)])
                       ELSE t])
      wpArr == NonNull([i \in DOMAIN teams |-> withWp[i].wp])
      sosArr == vals("sos")
      minSOS == SeqMin(sosArr)
      maxSOS == SeqMax(sosArr)
      withP == Eager([i \in DOMAIN teams |->
                  LET t == withWp[i]
                  IN  IF Len(sosArr) > 0 /\ t.sos # NULL /\ maxSOS > minSOS
                      THEN Assign(t, [P |-> FDiv(t.sos - minSOS, maxSOS - minSOS)])
                      ELSE t])
      pArr == NonNull([i \in DOMAIN teams |-> withP[i].P])
      fsWp == IF Len(wpArr) > 0 THEN [wp |-> StatOf(wpArr)] ELSE <<>>
      fsP == IF Len(pArr) > 0 THEN [P |-> StatOf(pArr)] ELSE <<>>
  IN  [stats |-> fsP @@ fsWp @@ fsZ, teams |-> withP]

\* yields the new FIELD_STATS and the teams with wp and P attached
computeFieldStats(teams) ==
  LET vals(key) == NonNull([i \in DOMAIN teams |-> teams[i][key]])
      zKeys == {METRICS_FOR_Z[i] : i \in DOMAIN METRICS_FOR_Z}
      fsZ == Eager([key \in {k \in zKeys : Len(vals(k)) > 0} |-> StatOf(vals(key))])
      withWp == Eager([i \in DOMAIN teams |->
                   LET t == teams[i]
                   IN  IF t.w # NULL /\ t.l # NULL /\ t.w + t.l > 0
                       THEN Assign(t, [wp |-> FDiv(t.w, t.w + t.l)])
                       ELSE t])
      wpArr == NonNull([i \in DOMAIN teams |-> withWp[i].wp])
      sosArr == vals("sos")
      minSOS == SeqMin(sosArr)
      maxSOS == SeqMax(sosArr)
      withP == Eager([i \in DOMAIN teams |->
                  LET t == withWp[i]
                  IN  IF Len(sosArr) > 0 /\ t.sos # NULL /\ maxSOS > minSOS
                      THEN Assign(t, [P |-> ONE - FDiv(t.sos - minSOS, maxSOS - minSOS)])
                      ELSE t])
      pArr == NonNull([i \in DOMAIN teams |-> withP[i].P])
      fsWp == IF Len(wpArr) > 0 THEN [wp |-> StatOf(wpArr)] ELSE <<>>
      fsP == IF Len(pArr) > 0 THEN [P |-> StatOf(pArr)] ELSE <<>>
  IN  [stats |-> fsP @@ fsWp @@ fsZ, teams |-> withP]

(***************************************************************************)
(* Baseline rating                                                         *)
(***************************************************************************)
NumOr0(x) == IF x # NULL THEN x ELSE 0

computeMIBaseNoResume(team) ==
  Assign(team, [mi_base |-> NumOr0(team.mibs) + NumOr0(team.breadth)])

computeMIBase(team) ==
  LET mibs == NumOr0(team.mibs)
      breadth == NumOr0(team.breadth)
      resumeAdj == NumOr0(team.resumeR)
  IN  Assign(team, [mi_base |-> mibs + breadth + resumeAdj])

(***************************************************************************)
(* Core Trait Layer                                                        *)
(***************************************************************************)
wOffDef == FDiv(C(45), C(200))
wShoot == FDiv(C(35), C(300))
wPoss == FDiv(C(20), C(200))
wAdjEM == C(10)

\* the shooting lane split over two metrics instead of its three
CoreWeightShootingHalved(key) ==
  CASE key \in {"offeff", "defeff"} -> wOffDef
    [] key \in {"ts", "efg", "def_efg"} -> FDiv(C(35), C(200))
    [] key \in {"epr", "to"} -> wPoss
    [] key = "adjem" -> wAdjEM

CoreWeight(key) ==
  CASE key \in {"offeff", "defeff"} -> wOffDef
    [] key \in {"ts", "efg", "def_efg"} -> wShoot
    [] key \in {"epr", "to"} -> wPoss
    [] key = "adjem" -> wAdjEM

computeCoreForTeam(FS, team) ==
  LET coreZ == [offeff |-> getZ(FS, team, "offeff", FALSE),
                defeff |-> getZ(FS, team, "defeff", TRUE),
                adjem |-> getZ(FS, team, "adjem", FALSE),
                ts |-> getZ(FS, team, "ts", FALSE),
                efg |-> getZ(FS, team, "efg", FALSE),
                def_efg |-> getZ(FS, team, "def_efg", TRUE),
                epr |-> getZ(FS, team, "epr", FALSE),
                to |-> getZ(FS, team, "to", TRUE)]
      mibsCore == FMul(wOffDef, coreZ.offeff) + FMul(wOffDef, coreZ.defeff)
                  + FMul(wShoot, coreZ.ts) + FMul(wShoot, coreZ.efg) + FMul(wShoot, coreZ.def_efg)
                  + FMul(wPoss, coreZ.epr) + FMul(wPoss, coreZ.to)
      mibs == mibsCore + FMul(wAdjEM, coreZ.adjem)
      detail(key) ==
        [key |-> key,
         mean |-> IF key \in DOMAIN FS THEN FS[key].mean ELSE NULL,
         sd |-> IF key \in DOMAIN FS THEN FS[key].sd ELSE NULL,
         value |-> team[key],
         z |-> coreZ[key],
         tier |-> getTierLabelFromZ(coreZ[key]),
         weight |-> CoreWeight(key),
         points |-> FMul(CoreWeight(key), coreZ[key])]
  IN  Assign(team,
        [coreZ |-> coreZ,
         coreTierPts |-> Eager([k \in CoreKeySet |-> getTierPointsFromZ(coreZ[k])]),
         mibs |-> mibs,
         coreDetails |-> <<detail("offeff"), detail("defeff"), detail("adjem"), detail("ts"),
                           detail("efg"), detail("def_efg"), detail("epr"), detail("to")>>])

(***************************************************************************)
(* Breadth Bonus Layer                                                     *)
(***************************************************************************)
computeBreadthForTeamCapped(team) ==
  LET z == team.coreZ
      isHit(val) == val # NULL /\ val >= C(60)
      cnt(keys) == Cardinality({k \in keys : isHit(z[k])})
      effHits == cnt({"offeff", "defeff", "adjem", "def_efg"})
      shootHits == cnt({"ts", "efg"})
      possHits == cnt({"epr", "to"})
      effBonus == IF effHits = 1 THEN C(10) ELSE IF effHits = 2 THEN C(20)
                  ELSE IF effHits = 3 THEN C(30) ELSE 0
      shootBonus == IF shootHits = 1 THEN C(15) ELSE IF shootHits = 2 THEN C(30) ELSE 0
      possBonus == IF possHits = 1 THEN C(15) ELSE IF possHits = 2 THEN C(30) ELSE 0
  IN  Assign(team,
        [breadthEffHits |-> effHits, breadthShootHits |-> shootHits,
         breadthPossHits |-> possHits, breadthTotalHits |-> effHits + shootHits + possHits,
         breadth |-> effBonus + shootBonus + possBonus,
         breadthHits |-> effHits + shootHits + possHits])

computeBreadthForTeam(team) ==
  LET z == team.coreZ
      isHit(val) == val # NULL /\ val >= C(60)
      cnt(keys) == Cardinality({k \in keys : isHit(z[k])})
      effHits == cnt({"offeff", "defeff", "adjem", "def_efg"})
      shootHits == cnt({"ts", "efg"})
      possHits == cnt({"epr", "to"})
      effBonus == IF effHits = 1 THEN C(10) ELSE IF effHits = 2 THEN C(20)
                  ELSE IF effHits = 3 THEN C(30) ELSE IF effHits = 4 THEN C(40) ELSE 0
      shootBonus == IF shootHits = 1 THEN C(15) ELSE IF shootHits = 2 THEN C(30) ELSE 0
      possBonus == IF possHits = 1 THEN C(15) ELSE IF possHits = 2 THEN C(30) ELSE 0
  IN  Assign(team,
        [breadthEffHits |-> effHits, breadthShootHits |-> shootHits,
         breadthPossHits |-> possHits, breadthTotalHits |-> effHits + shootHits + possHits,
         breadth |-> effBonus + shootBonus + possBonus,
         breadthHits |-> effHits + shootHits + possHits])

(***************************************************************************)
(* Resume Context Layer                                                    *)
(***************************************************************************)
\* the SD floor of "sd || 0.00001": the smallest positive fixed-point number
SD_FLOOR == 1

OrFloor(sd) == IF sd = 0 THEN SD_FLOOR ELSE sd

\* the index R of an entrant that has wp and P, against the field snapshots
ResumeIndexOf(FS, team) ==
  LET z_wp == zScore(team.wp, FS.wp.mean, OrFloor(FS.wp.sd))
      z_P == zScore(team.P, FS.P.mean, OrFloor(FS.P.sd))
  IN  Div(z_wp + z_P, 2)

computeResumeContextForTeamNoEntrantGuard(FS, team) ==
  LET have == "wp" \in DOMAIN FS /\ "P" \in DOMAIN FS
      z_wp == IF have THEN zScore(team.wp, FS.wp.mean, OrFloor(FS.wp.sd)) ELSE 0
      z_P == IF have THEN zScore(team.P, FS.P.mean, OrFloor(FS.P.sd)) ELSE 0
      R == Div(z_wp + z_P, 2)
      adj == IF R >= C(100) THEN C(15) ELSE IF R >= C(80) THEN C(10)
             ELSE IF R >= C(60) THEN C(5) ELSE IF R < 0 - C(80) THEN 0 - C(25)
             ELSE IF R < 0 THEN 0 - C(15) ELSE 0
      tier == IF R >= C(100) THEN "Elite" ELSE IF R >= C(80) THEN "Strong"
              ELSE IF R >= C(60) THEN "Above Average" ELSE IF R < 0 - C(80) THEN "Fragile"
              ELSE IF R < 0 THEN "Weak" ELSE "Average"
  IN  computeMIBase(Assign(team, [resumeIndex |-> R, resumeR |-> adj, resumeRTier |-> tier]))

\* computeResumeContextForTeam with the adjustments of its comment block
\* (-0.05 'Weak', -0.10 'Fragile')
computeResumeContextForTeamEarlierRevision(FS, team) ==
  IF "wp" \notin DOMAIN FS \/ "P" \notin DOMAIN FS \/ team.wp = NULL \/ team.P = NULL
  THEN computeMIBase(Assign(team, [resumeIndex |-> 0, resumeR |-> 0, resumeRTier |-> "Average"]))
  ELSE LET R == ResumeIndexOf(FS, team)
           adj == IF R >= C(100) THEN C(15) ELSE IF R >= C(80) THEN C(10)
                  ELSE IF R >= C(60) THEN C(5) ELSE IF R < 0 - C(80) THEN 0 - C(10)
                  ELSE IF R < 0 THEN 0 - C(5) ELSE 0
           tier == IF R >= C(100) THEN "Elite" ELSE IF R >= C(80) THEN "Strong"
                   ELSE IF R >= C(60) THEN "Above Average" ELSE IF R < 0 - C(80) THEN "Fragile"
                   ELSE IF R < 0 THEN "Weak" ELSE "Average"
       IN  computeMIBase(Assign(team, [resumeIndex |-> R, resumeR |-> adj, resumeRTier |-> tier]))

computeResumeContextForTeam(FS, team) ==
  IF "wp" \notin DOMAIN FS \/ "P" \notin DOMAIN FS \/ team.wp = NULL \/ team.P = NULL
  THEN computeMIBase(Assign(team, [resumeIndex |-> 0, resumeR |-> 0, resumeRTier |-> "Average"]))
  ELSE LET R == ResumeIndexOf(FS, team)
           adj == IF R >= C(100) THEN C(15) ELSE IF R >= C(80) THEN C(10)
                  ELSE IF R >= C(60) THEN C(5) ELSE IF R < 0 - C(80) THEN 0 - C(25)
                  ELSE IF R < 0 THEN 0 - C(15) ELSE 0
           tier == IF R >= C(100) THEN "Elite" ELSE IF R >= C(80) THEN "Strong"
                   ELSE IF R >= C(60) THEN "Above Average" ELSE IF R < 0 - C(80) THEN "Fragile"
                   ELSE IF R < 0 THEN "Weak" ELSE "Average"
       IN  computeMIBase(Assign(team, [resumeIndex |-> R, resumeR |-> adj, resumeRTier |-> tier]))

(***************************************************************************)
(* Interaction Engine.  The accumulator __INT is passed as acc.  The mark  *)
(* strings are written with "-" for the dash of the source.                *)
(***************************************************************************)
FreshINT == [a |-> 0, b |-> 0, breakdown |-> <<>>]

Entry(breakdown, tag) == IF tag \in DOMAIN breakdown THEN breakdown[tag] ELSE 0

_applyToAOneSided(acc, base, tag) ==
  IF base = 0 THEN acc
  ELSE [a |-> acc.a + base, b |-> acc.b,
        breakdown |-> (tag :> (Entry(acc.breakdown, tag) + base)) @@ acc.breakdown]

_applyToA(acc, base, tag) ==
  IF base = 0 THEN acc
  ELSE [a |-> acc.a + base, b |-> acc.b - base,
        breakdown |-> (tag :> (Entry(acc.breakdown, tag) + base)) @@ acc.breakdown]

_applyToB(acc, base, tag) ==
  IF base = 0 THEN acc
  ELSE [a |-> acc.a - base, b |-> acc.b + base,
        breakdown |-> (tag :> (Entry(acc.breakdown, tag) - base)) @@ acc.breakdown]

\* the selection block shared by the offense-vs-resistance categories:
\* the gap of larger magnitude is half-mirrored and awarded to its offense
ApplyStrongerGap(acc, gapA, gapB, tag) ==
  IF Abs(gapA) >= Abs(gapB)
  THEN LET base == halfMirroredAdjust(gapA)
       IN  IF gapA > 0 THEN _applyToA(acc, base, tag) ELSE _applyToB(acc, base, tag)
  ELSE LET base == halfMirroredAdjust(gapB)
       IN  IF gapB > 0 THEN _applyToB(acc, base, tag) ELSE _applyToA(acc, base, tag)

interaction3PT(FS, acc, a, b) ==
  LET off(t) == Div(getZ(FS, t, "threepr", FALSE) + getZ(FS, t, "threepp", FALSE)
                    + getZ(FS, t, "pct_pts_3", FALSE), 3)
      def(t) == Div(getZ(FS, t, "opp_3pr", TRUE) + getZ(FS, t, "opp_3pp", TRUE), 2)
  IN  ApplyStrongerGap(acc, off(a) - def(b), off(b) - def(a), "3pt")

interactionFT(FS, acc, a, b) ==
  LET off(t) == Div(getZ(FS, t, "ftr", FALSE) + getZ(FS, t, "ft_pct", FALSE)
                    + getZ(FS, t, "pct_pts_ft", FALSE), 3)
      def(t) == getZ(FS, t, "opp_ftr", TRUE)
  IN  ApplyStrongerGap(acc, off(a) - def(b), off(b) - def(a), "ft")

interactionPaint(FS, acc, a, b) ==
  LET off(t) == Div(getZ(FS, t, "pct_pts_2", FALSE) + getZ(FS, t, "nb2", FALSE), 2)
      rimDef(t) == Div(getZ(FS, t, "def_efg", TRUE) + getZ(FS, t, "blk", FALSE), 2)
  IN  ApplyStrongerGap(acc, off(a) - rimDef(b), off(b) - rimDef(a), "paint")

interactionTO(FS, acc, a, b) ==
  LET press(t) == Div(getZ(FS, t, "spp", FALSE) + getZ(FS, t, "otpp", FALSE)
                      + getZ(FS, t, "opp_ast_poss", TRUE), 3)
      sec(t) == getZ(FS, t, "to", TRUE)
  IN  ApplyStrongerGap(acc, press(a) - sec(b), press(b) - sec(a), "to")

interactionGlass(FS, acc, a, b) ==
  LET offGlass(t) == Div(getZ(FS, t, "orb", FALSE) + getZ(FS, t, "scpg", FALSE), 2)
      defGlass(t) == getZ(FS, t, "drb", FALSE)
  IN  ApplyStrongerGap(acc, offGlass(a) - defGlass(b), offGlass(b) - defGlass(a), "glass")

interactionResume(FS, acc, a, b) ==
  IF "wp" \notin DOMAIN FS \/ "P" \notin DOMAIN FS
     \/ a.wp = NULL \/ b.wp = NULL \/ a.P = NULL \/ b.P = NULL
  THEN acc
  ELSE LET gap == ResumeIndexOf(FS, a) - ResumeIndexOf(FS, b)
           base == halfMirroredAdjust(gap)
       IN  IF gap > 0 THEN _applyToA(acc, base, "resume")
           ELSE IF gap < 0 THEN _applyToB(acc, base, "resume")
           ELSE acc

interactionPhysicality(FS, acc, a, b) ==
  LET physOff(t) == Div(getZ(FS, t, "ftr", FALSE) + getZ(FS, t, "pct_pts_2", FALSE)
                        + getZ(FS, t, "nb2", FALSE), 3)
      tolDef(t) == Div(getZ(FS, t, "blk", FALSE) + getZ(FS, t, "def_efg", TRUE)
                       + getZ(FS, t, "opp_ftr", TRUE), 3)
  IN  ApplyStrongerGap(acc, physOff(a) - tolDef(b), physOff(b) - tolDef(a), "phys")

interactionShotQuality(FS, acc, a, b) ==
  LET sq(t) == Div(getZ(FS, t, "efg", FALSE) + getZ(FS, t, "threepr", FALSE)
                   + getZ(FS, t, "nb2", FALSE), 3)
      sd(t) == Div(getZ(FS, t, "def_efg", TRUE) + getZ(FS, t, "opp_ast_poss", TRUE), 2)
  IN  ApplyStrongerGap(acc, sq(a) - sd(b), sq(b) - sd(a), "shotq")

getTurnoverFragility(FS, team) ==
  LET stability == Div((0 - getZ(FS, team, "to", FALSE)) + getZ(FS, team, "epr", FALSE), 2)
  IN  0 - stability

getVarianceMarkBonus(team) ==
  LET marks == team.profileMarks
  IN  (IF Includes(marks, "Unstable Perimeter - Severe") THEN C(10)
       ELSE IF Includes(marks, "Unstable Perimeter - Moderate") THEN C(5) ELSE 0)
      + (IF Includes(marks, "Cold Arc Team - Severe") THEN C(10)
         ELSE IF Includes(marks, "Cold Arc Team - Moderate") THEN C(5) ELSE 0)

getVEI(FS, team) ==
  FMul(C(40), getZ(FS, team, "threepr", FALSE))
  + FMul(C(20), getZ(FS, team, "ftr", TRUE))
  + FMul(C(20), getZ(FS, team, "orb", TRUE))
  + FMul(C(20), getTurnoverFragility(FS, team))
  + getVarianceMarkBonus(team)

getOSI(FS, team) ==
  Div(getZ(FS, team, "otpp", FALSE) + getZ(FS, team, "drb", FALSE)
      + getZ(FS, team, "opp_ftr", TRUE) + getZ(FS, team, "opp_3pp", TRUE), 4)

interactionVariance(FS, acc, a, b) ==
  LET riskA == getVEI(FS, a) - getOSI(FS, b)
      riskB == getVEI(FS, b) - getOSI(FS, a)
  IN  IF Abs(riskA) >= Abs(riskB)
      THEN LET base == halfMirroredAdjust(riskA)
           IN  IF riskA > 0 THEN _applyToB(acc, base, "var")
               ELSE IF riskA < 0 THEN _applyToA(acc, base, "var")
               ELSE acc
      ELSE LET base == halfMirroredAdjust(riskB)
           IN  IF riskB > 0 THEN _applyToA(acc, base, "var")
               ELSE IF riskB < 0 THEN _applyToB(acc, base, "var")
               ELSE acc

\* the nine categories applied in order to the accumulator acc
RunCategories(FS, acc, a, b) ==
  LET i1 == interaction3PT(FS, acc, a, b)
      i2 == interactionFT(FS, i1, a, b)
      i3 == interactionPaint(FS, i2, a, b)
      i4 == interactionTO(FS, i3, a, b)
      i5 == interactionGlass(FS, i4, a, b)
      i6 == interactionResume(FS, i5, a, b)
      i7 == interactionPhysicality(FS, i6, a, b)
      i8 == interactionShotQuality(FS, i7, a, b)
  IN  interactionVariance(FS, i8, a, b)

\* computeInteractions without the reset of its first line
computeInteractionsNoReset(FS, INT, a, b) == RunCategories(FS, INT, a, b)

\* INT is __INT before the call; the result is __INT after it, of which the
\* function returns a, b and (by reference) breakdown
computeInteractions(FS, INT, a, b) == RunCategories(FS, FreshINT, a, b)

(***************************************************************************)
(* Profile Marks Layer                                                     *)
(***************************************************************************)
ValOr0(x) == IF x = NULL THEN 0 ELSE x

computeProfileMarks(FS, team) ==
  LET has(k) == k \in DOMAIN FS
      z(k) == getZ(FS, team, k, FALSE)
      s2 == ValOr0(team.pct_pts_2)
      s3 == ValOr0(team.pct_pts_3)
      sft == ValOr0(team.pct_pts_ft)
      primaryShare == Max2(Max2(s2, s3), sft)
      primary == IF primaryShare = s2 THEN "2P" ELSE IF primaryShare = s3 THEN "3P" ELSE "FT"
      planB == IF primary = "2P" THEN Div(z("threepp") + z("ft_pct"), 2)
               ELSE IF primary = "3P" THEN Div(z("nb2") + z("ft_pct"), 2)
               ELSE Div(z("nb2") + z("threepp"), 2)
      m1 == IF primaryShare >= C(50)
            THEN IF primaryShare >= C(55) /\ planB <= 0 - C(50)
                 THEN <<"Offensive Rigidity - Severe">>
                 ELSE IF planB <= 0 - C(25) THEN <<"Offensive Rigidity - Moderate">> ELSE <<>>
            ELSE <<>>
      m2 == IF team.threepr # NULL /\ team.threepp # NULL
            THEN LET gap == Abs(team.threepr - team.threepp)
                 IN  IF team.threepr >= C(40)
                     THEN IF gap >= C(10) THEN <<"Unstable Perimeter - Severe">>
                          ELSE IF gap >= C(6) THEN <<"Unstable Perimeter - Moderate">> ELSE <<>>
                     ELSE <<>>
            ELSE <<>>
      m3 == IF has("threepp") /\ team.threepp # NULL
            THEN IF z("threepp") < 0 - C(67) THEN <<"Cold Arc Team - Severe">>
                 ELSE IF z("threepp") < 0 /\ z("threepp") >= 0 - C(67)
                      THEN <<"Cold Arc Team - Moderate">> ELSE <<>>
            ELSE <<>>
      m4 == IF has("spp") /\ has("otpp") /\ has("opp_ftr")
               /\ team.spp # NULL /\ team.otpp # NULL /\ team.opp_ftr # NULL
            THEN LET pressure == z("spp") + z("otpp")
                     discipline == 0 - z("opp_ftr")
                     disorder == pressure - discipline
                 IN  IF disorder >= C(100) THEN <<"Undisciplined Defense - Severe">>
                     ELSE IF disorder >= C(50) THEN <<"Undisciplined Defense - Moderate">> ELSE <<>>
            ELSE <<>>
      m5 == IF has("def_efg") /\ has("blk") /\ team.def_efg # NULL /\ team.blk # NULL
            THEN LET resistance == Div((0 - z("def_efg")) + z("blk"), 2)
                 IN  IF resistance < 0 - C(75) THEN <<"Soft Interior - Severe">>
                     ELSE IF resistance < 0 - C(25) THEN <<"Soft Interior - Moderate">> ELSE <<>>
            ELSE <<>>
      m6 == IF has("opp_3pr") /\ has("opp_3pp") /\ team.opp_3pr # NULL /\ team.opp_3pp # NULL
            THEN LET exposure == z("opp_3pr") + z("opp_3pp")
                 IN  IF exposure >= C(100) THEN <<"Perimeter Leakage - Severe">>
                     ELSE IF exposure >= C(50) THEN <<"Perimeter Leakage - Moderate">> ELSE <<>>
            ELSE <<>>
      m7 == IF has("tempo") /\ has("epr") /\ has("to")
               /\ team.tempo # NULL /\ team.epr # NULL /\ team.to # NULL
            THEN LET tempoExtremity == Abs(z("tempo"))
                     si == Div(z("epr") + getZ(FS, team, "to", TRUE), 2)
                     vulnerability == Max2(0, 0 - si)
                     tempoStrain == FMul(tempoExtremity, vulnerability)
                 IN  IF tempoExtremity < C(80) THEN <<>>
                     ELSE IF tempoExtremity >= C(120) /\ vulnerability >= C(75)
                             /\ tempoStrain >= C(90)
                          THEN <<"Tempo Strain - Severe">>
                     ELSE IF tempoExtremity >= C(80) /\ vulnerability >= C(40)
                             /\ tempoStrain >= C(40)
                          THEN <<"Tempo Strain - Moderate">>
                     ELSE <<>>
            ELSE <<>>
      m8 == IF has("to") /\ has("epr") /\ team.to # NULL /\ team.epr # NULL
            THEN LET stability == Div((0 - getZ(FS, team, "to", FALSE)) + z("epr"), 2)
                     frag == 0 - stability
                 IN  IF frag >= C(100) THEN <<"Turnover Fragility - Severe">>
                     ELSE IF frag >= C(50) THEN <<"Turnover Fragility - Moderate">> ELSE <<>>
            ELSE <<>>
  IN  Assign(team, [profileMarks |-> m1 \o m2 \o m3 \o m4 \o m5 \o m6 \o m7 \o m8])

(***************************************************************************)
(* Full team layer computation                                             *)
(***************************************************************************)
computeAllTeamLayers(FS, teams) ==
  Eager([i \in DOMAIN teams |->
     computeProfileMarks(FS,
       computeResumeContextForTeam(FS,
         computeBreadthForTeam(
           computeCoreForTeam(FS, teams[i]))))])

(***************************************************************************)
(* Static Identity Layer (CIS / FAS)                                       *)
(***************************************************************************)
getCoreFractions(team) ==
  LET z == team.coreZ
      strong == {k \in DOMAIN z : z[k] # NULL /\ z[k] >= C(80)}
      weak == {k \in DOMAIN z : z[k] # NULL /\ ~(z[k] >= C(80)) /\ z[k] < C(50)}
      total == Cardinality(DOMAIN z)
  IN  [fStrong |-> Div(Cardinality(strong) * ONE, total),
       fWeak |-> Div(Cardinality(weak) * ONE, total),
       strongCount |-> Cardinality(strong), weakCount |-> Cardinality(weak)]

\* [...teams].sort by mi_base ascending (stable): the indices of teams in sorted order
RECURSIVE SortByMiBase(_, _)
SortByMiBase(teams, left) ==
  IF left = {} THEN <<>>
  ELSE LET m == CHOOSE i \in left : \A j \in left :
                  \/ NumOr0(teams[i].mi_base) < NumOr0(teams[j].mi_base)
                  \/ NumOr0(teams[i].mi_base) = NumOr0(teams[j].mi_base) /\ i <= j
       IN  <<m>> \o SortByMiBase(teams, left \ {m})

\* the threshold EPS = 1e-6 is below the fixed-point resolution
EPS == 0

\* one pass of the first loop: the entrant team with percentile P attached
\* and its raw identity scores
RawIdentity(team, P) ==
  LET s == team.seed
      r100 == (P * 100 + (ONE \div 2)) \div ONE
      rating == IF r100 < 1 THEN 1 ELSE IF r100 > 99 THEN 99 ELSE r100
      Sf == Div((17 - s) * ONE, 16)
      Su == Div((s - 1) * ONE, 16)
      delta == P - Sf
      deltaPlus == Max2(0, delta)
      APrime == ONE - Abs(delta)
      cf == getCoreFractions(team)
      bCoreCIS == Max2(0, cf.fStrong - FMul(C(50), cf.fWeak))
      bCoreFAS == FMul(cf.fStrong, ONE - cf.fWeak)
      R == NumOr0(team.resumeR)
      Rplus == C(50) + Div(R, 4)
      xCIS == FMul(C(60), deltaPlus) + FMul(C(25), bCoreCIS) + FMul(C(15), Rplus)
      xFAS == FMul(C(50), APrime) + FMul(C(30), bCoreFAS) + FMul(C(20), Rplus)
  IN  IF s = NULL
      THEN Assign(team, [cis_raw |-> 0, fas_raw |-> 0])
      ELSE Assign(team,
             [performancePercentile |-> P, mi_rating |-> rating,
              coreStrongCount |-> cf.strongCount, coreWeakCount |-> cf.weakCount,
              coreStrongFrac |-> cf.fStrong, coreWeakFrac |-> cf.fWeak,
              cis_raw |-> FMul(Su, xCIS), fas_raw |-> FMul(Sf, xFAS)])

\* were the entrants sorted by mi_base descending
perfMapDescending(teams) ==
  LET n == Len(teams)
      sorted == SortByMiBase(teams, DOMAIN teams)
      idxOf(i) == n - (CHOOSE k \in DOMAIN sorted : sorted[k] = i)
  IN  Eager([i \in DOMAIN teams |-> Div((2 * idxOf(i) + 1) * ONE, 2 * n)])

\* perfMap: the rank-percentile (idx + 0.5) / n of every entrant, by its
\* position in teams
perfMap(teams) ==
  LET n == Len(teams)
      sorted == SortByMiBase(teams, DOMAIN teams)
      idxOf(i) == (CHOOSE k \in DOMAIN sorted : sorted[k] = i) - 1
  IN  Eager([i \in DOMAIN teams |-> Div((2 * idxOf(i) + 1) * ONE, 2 * n)])

\* the first loop over the teams, which all have mi_base
RawIdentitiesWith(teams, perf) ==
  Eager([i \in DOMAIN teams |-> RawIdentity(teams[i], perf[i])])

RawIdentities(teams) == RawIdentitiesWith(teams, perfMap(teams))

\* the second loop, were the raw Cinderella score added to mi_base
NormaliseIdentitiesIntoBase(raw) ==
  LET cisRawMax == SeqMax(<<0>> \o [i \in DOMAIN raw |-> raw[i].cis_raw])
      fasRawMax == SeqMax(<<0>> \o [i \in DOMAIN raw |-> raw[i].fas_raw])
  IN  Eager([i \in DOMAIN raw |->
         LET cisRaw == NumOr0(raw[i].cis_raw)
             fasRaw == NumOr0(raw[i].fas_raw)
         IN  Assign(raw[i],
               [cisStatic |-> IF cisRawMax > EPS /\ cisRaw > 0
                              THEN FDiv(cisRaw, cisRawMax) * 100 ELSE 0,
                fasStatic |-> IF fasRawMax > EPS /\ fasRaw > 0
                              THEN FDiv(fasRaw, fasRawMax) * 100 ELSE 0,
                mi_base |-> raw[i].mi_base + cisRaw])])

\* the second loop, were the raw scores divided by the field's total
NormaliseIdentitiesByTotal(raw) ==
  LET cisRawMax == SumSeq([i \in DOMAIN raw |-> Max2(0, NumOr0(raw[i].cis_raw))])
      fasRawMax == SumSeq([i \in DOMAIN raw |-> Max2(0, NumOr0(raw[i].fas_raw))])
  IN  Eager([i \in DOMAIN raw |->
         LET cisRaw == NumOr0(raw[i].cis_raw)
             fasRaw == NumOr0(raw[i].fas_raw)
         IN  Assign(raw[i],
               [cisStatic |-> IF cisRawMax > EPS /\ cisRaw > 0
                              THEN FDiv(cisRaw, cisRawMax) * 100 ELSE 0,
                fasStatic |-> IF fasRawMax > EPS /\ fasRaw > 0
                              THEN FDiv(fasRaw, fasRawMax) * 100 ELSE 0])])

\* the second loop: the raw scores normalised to 0..100 across the field
NormaliseIdentities(raw) ==
  LET cisRawMax == SeqMax(<<0>> \o [i \in DOMAIN raw |-> raw[i].cis_raw])
      fasRawMax == SeqMax(<<0>> \o [i \in DOMAIN raw |-> raw[i].fas_raw])
  IN  Eager([i \in DOMAIN raw |->
         LET cisRaw == NumOr0(raw[i].cis_raw)
             fasRaw == NumOr0(raw[i].fas_raw)
         IN  Assign(raw[i],
               [cisStatic |-> IF cisRawMax > EPS /\ cisRaw > 0
                              THEN FDiv(cisRaw, cisRawMax) * 100 ELSE 0,
                fasStatic |-> IF fasRawMax > EPS /\ fasRaw > 0
                              THEN FDiv(fasRaw, fasRawMax) * 100 ELSE 0])])

computeStaticIdentities(teams0) ==
  IF Len(teams0) = 0 THEN teams0
  ELSE NormaliseIdentities(RawIdentities(
         Eager([i \in DOMAIN teams0 |->
            IF teams0[i].mi_base = NULL THEN computeMIBase(teams0[i]) ELSE teams0[i]])))

(***************************************************************************)
(* Matchup Resolver                                                        *)
(***************************************************************************)
getResumeInteractionFactorFlat(team) == C(85)

getResumeInteractionFactor(team) ==
  LET tier == team.resumeRTier
  IN  CASE tier = "Elite" -> C(100)
        [] tier = "Strong" -> C(95)
        [] tier = "Above Average" -> C(90)
        [] tier = "Average" -> C(85)
        [] tier = "Weak" -> C(70)
        [] tier = "Fragile" -> C(50)
        [] OTHER -> C(85)

\* the team object after the call; the value returned is its mi_matchup
computeFinalMI(team, interactionAdj) ==
  LET t == IF team.mi_base # NULL THEN team ELSE computeMIBase(team)
      base == t.mi_base
      intRaw == IF interactionAdj # NULL THEN interactionAdj ELSE 0
      rFactor == getResumeInteractionFactor(t)
      intAdj == FMul(intRaw, rFactor)
  IN  Assign(t, [mi_matchup |-> base + intAdj, mi_int_raw |-> intRaw,
                 mi_int |-> intAdj, mi_int_rFact |-> rFactor])

getTeamByName(teams, name) == teams[TeamIndex(teams, name)]

NoResult == [defined |-> FALSE]

Predicted(a, b, diff) == IF diff > 0 THEN a.name ELSE IF diff < 0 THEN b.name ELSE "Push"

\* compareTeams from the return of computeInteractions on: int is the
\* returned object, a and b are the team objects of the two names
compareTeamsFrom(teams, round, a, b, int) ==
  LET seedMeta == getSeedRoundMeta(a.seed, b.seed, round)
      a1 == computeFinalMI(a, int.a)
      teams1 == PutTeam(teams, a1)
      b1 == computeFinalMI(getTeamByName(teams1, b.name), int.b)
      teams2 == PutTeam(teams1, b1)
      miA == a1.mi_matchup
      miB == b1.mi_matchup
      diff == miA - miB
  IN  [teams |-> teams2, INT |-> int,
       result |-> [defined |-> TRUE, a |-> a.name, b |-> b.name,
                   miA |-> miA, miB |-> miB, diff |-> diff,
                   predicted |-> Predicted(a, b, diff),
                   interactions |-> int, round |-> round, seedMeta |-> seedMeta]]

\* the effects of compareTeams on two names that resolve: the TEAMS objects
\* after both computeFinalMI calls, __INT, and the result object (a and b are
\* the names of the team objects it references)
compareTeams(FS, teams, INT, round, teamAName, teamBName) ==
  LET a == getTeamByName(teams, teamAName)
      b == getTeamByName(teams, teamBName)
  IN  compareTeamsFrom(teams, round, a, b, computeInteractions(FS, INT, a, b))

(***************************************************************************)
(* State                                                                   *)
(***************************************************************************)
VARIABLES RAW_ROWS, TEAMS, FIELD_STATS, TEAM_LIST, CURRENT_ROUND, __INT, LAST_RESULT,
          call, ret,
          SANDBOX_MODE,     \* the global of that name
          selectA, selectB, \* value of the selects teamA and teamB ("" for the placeholder)
          shown,            \* the round options that are displayed
          compareEnabled,   \* the Compare button is not disabled
          fetches           \* the calls of loadOfficialDatasetFromUrl, in request order

vars == <<RAW_ROWS, TEAMS, FIELD_STATS, TEAM_LIST, CURRENT_ROUND, __INT, LAST_RESULT,
          call, ret, SANDBOX_MODE, selectA, selectB, shown, compareEnabled, fetches>>

engine == <<RAW_ROWS, TEAMS, FIELD_STATS, TEAM_LIST, CURRENT_ROUND, __INT, LAST_RESULT>>

page == <<SANDBOX_MODE, selectA, selectB, shown, compareEnabled, fetches>>

Rounds == {ROUND_ORDER[i] : i \in DOMAIN ROUND_ORDER}

NoCall == [kind |-> "none"]

EngineInit ==
  /\ RAW_ROWS = <<>>
  /\ TEAMS = <<>>
  /\ FIELD_STATS = <<>>
  /\ TEAM_LIST = <<>>
  /\ CURRENT_ROUND = "null"
  /\ __INT = FreshINT
  /\ LAST_RESULT = NoResult

\* the page as setupEventListeners leaves it: nothing selected, every round
\* option displayed, Compare disabled, no request made
PageInit ==
  /\ SANDBOX_MODE = FALSE
  /\ selectA = ""
  /\ selectB = ""
  /\ shown = Rounds
  /\ compareEnabled = FALSE
  /\ fetches = <<>>

Init ==
  /\ EngineInit
  /\ PageInit
  /\ call = NoCall
  /\ ret = NoResult

\* buildTeamsFromCSV, were the layers computed before the field statistics
buildTeamsFromCSVLayersFirst(rows) ==
  LET built == BuildTeams(rows, <<>>)
      layered == computeAllTeamLayers(<<>>, built)
      fs == computeFieldStats(layered)
  IN  [teams |-> computeStaticIdentities(fs.teams), stats |-> fs.stats,
       list |-> SortNames(BuildTeamList(rows))]

\* buildTeamsFromCSV: the teams after field statistics, layers and identities
buildTeamsFromCSV(rows) ==
  LET built == BuildTeams(rows, <<>>)
      fs == computeFieldStats(built)
      layered == computeAllTeamLayers(fs.stats, fs.teams)
  IN  [teams |-> computeStaticIdentities(layered), stats |-> fs.stats,
       list |-> SortNames(BuildTeamList(rows))]

\* buildTeamsFromCSV tabulated over the files
Built == Eager([f \in Files |-> buildTeamsFromCSV(RowsOf[f])])

\* what an operation that yields no result object reports: the class of the
\* status line after a load ("ok", "warn"), or "error" for the console.error
\* of compareTeams, which then returns undefined
Reported(status) == [defined |-> FALSE, status |-> status]

\* populateTeamDropdowns: both selects rebuilt with the placeholder selected,
\* then updateRoundOptionsForCurrentSeeds (no names: every option displayed,
\* round cleared, Compare disabled) and refreshCompareButtonState
populateTeamDropdowns ==
  /\ selectA' = ""
  /\ selectB' = ""
  /\ shown' = Rounds
  /\ CURRENT_ROUND' = "null"
  /\ compareEnabled' = FALSE

\* the synchronous part of a load: RAW_ROWS = rows, buildTeamsFromCSV, which
\* ends in populateTeamDropdowns (TEAM_LIST.sort(), round selection cleared),
\* then the status line from the number of teams parsed
Install(f) ==
  \E built \in {Built[f]} :
      /\ RAW_ROWS' = RowsOf[f]
      /\ TEAMS' = built.teams
      /\ FIELD_STATS' = built.stats
      /\ TEAM_LIST' = built.list
      /\ populateTeamDropdowns
      /\ ret' = Reported(IF Len(built.list) > 0 THEN "ok" ELSE "warn")
      /\ UNCHANGED <<__INT, LAST_RESULT, call, SANDBOX_MODE>>

\* FileReader onload handler
LoadCSV(f) == Install(f) /\ UNCHANGED fetches

\* compareTeams, were a name that does not resolve answered by a neutral result
CompareTeamsNeutralised(teamAName, teamBName) ==
  /\ UNCHANGED <<call, page>>
  /\ IF ~HasTeam(TEAMS, teamAName) \/ ~HasTeam(TEAMS, teamBName)
     THEN \E c \in {[defined |-> TRUE, a |-> teamAName, b |-> teamBName, miA |-> 0, miB |-> 0,
                     diff |-> 0, predicted |-> "Push", interactions |-> FreshINT,
                     round |-> CURRENT_ROUND, seedMeta |-> NULL]} :
              /\ LAST_RESULT' = c
              /\ ret' = c
              /\ UNCHANGED <<RAW_ROWS, TEAMS, FIELD_STATS, TEAM_LIST, CURRENT_ROUND, __INT>>
     ELSE \E c \in {compareTeams(FIELD_STATS, TEAMS, __INT, CURRENT_ROUND, teamAName, teamBName)} :
              /\ TEAMS' = c.teams
              /\ __INT' = c.INT
              /\ LAST_RESULT' = c.result
              /\ ret' = c.result
              /\ UNCHANGED <<RAW_ROWS, FIELD_STATS, TEAM_LIST, CURRENT_ROUND>>

\* compareTeams called with two names
CompareTeams(teamAName, teamBName) ==
  /\ UNCHANGED <<call, page>>
  /\ IF ~HasTeam(TEAMS, teamAName) \/ ~HasTeam(TEAMS, teamBName)
     THEN /\ ret' = Reported("error")
          /\ UNCHANGED engine
     ELSE \E c \in {compareTeams(FIELD_STATS, TEAMS, __INT, CURRENT_ROUND, teamAName, teamBName)} :
              /\ TEAMS' = c.teams
              /\ __INT' = c.INT
              /\ LAST_RESULT' = c.result
              /\ ret' = c.result
              /\ UNCHANGED <<RAW_ROWS, FIELD_STATS, TEAM_LIST, CURRENT_ROUND>>

\* the names a caller may pass: each entrant of the collection and one that is
\* not in it
Unlisted == "Zulu"
CallNames == {TEAMS[i].name : i \in DOMAIN TEAMS} \cup {Unlisted}

Next ==
  \/ \E f \in Files : LoadCSV(f)
  \/ \E x, y \in CallNames : CompareTeams(x, y)

Spec == Init /\ [][Next]_vars

(***************************************************************************)
(* The page: team selects, round selector, Sandbox toggle and Compare      *)
(* button, over a few datasets.                                            *)
(***************************************************************************)
\* the files the page is given: no named row; Cedar and Echo (both seed 8);
\* Alpha (seed 1), Bravo (seed 16) and Delta (no seed)
Datasets == {{}, {1, 4}, {2, 3, 5}}

isCSVLoaded == Len(RAW_ROWS) > 0 /\ Len(TEAM_LIST) > 0

\* getSelectedTeams().ok for the values a and b of the two selects
SelectedOk(a, b) == a # "" /\ b # "" /\ a # b

SeedOf(teams, name) == getTeamByName(teams, name).seed

\* updateRoundOptionsForCurrentSeeds: the round options left displayed for
\* the values teamAName and teamBName of the selects (it also clears
\* CURRENT_ROUND and disables Compare on every path)
updateRoundOptionsForCurrentSeeds(sandbox, teams, teamAName, teamBName) ==
  IF sandbox THEN Rounds
  ELSE IF teamAName = "" \/ teamBName = "" THEN Rounds
  ELSE IF \/ ~HasTeam(teams, teamAName) \/ ~HasTeam(teams, teamBName)
          \/ SeedOf(teams, teamAName) = NULL \/ SeedOf(teams, teamBName) = NULL
       THEN Rounds
  ELSE LET allowedRounds ==
             getPossibleRoundsForSeeds(SeedOf(teams, teamAName), SeedOf(teams, teamBName))
       IN  {code \in Rounds : Includes(allowedRounds, code)}

\* onTeamChange after the user picked name in one of the selects: the round
\* options are filtered, the round is cleared, and refreshCompareButtonState
\* finds no round selected
OnTeamChange(a, b) ==
  /\ selectA' = a
  /\ selectB' = b
  /\ shown' = updateRoundOptionsForCurrentSeeds(SANDBOX_MODE, TEAMS, a, b)
  /\ CURRENT_ROUND' = "null"
  /\ compareEnabled' = FALSE
  /\ UNCHANGED <<RAW_ROWS, TEAMS, FIELD_STATS, TEAM_LIST, __INT, LAST_RESULT,
                 call, ret, SANDBOX_MODE, fetches>>

Options == {TEAM_LIST[i] : i \in DOMAIN TEAM_LIST}

ChangeTeamA(name) == name \in Options /\ name # selectA /\ OnTeamChange(name, selectB)
ChangeTeamB(name) == name \in Options /\ name # selectB /\ OnTeamChange(selectA, name)

\* click on a displayed round option
ClickRoundOption(value) ==
  /\ value \in shown
  /\ CURRENT_ROUND' = value
  /\ compareEnabled' = (isCSVLoaded /\ SelectedOk(selectA, selectB))
  /\ UNCHANGED <<RAW_ROWS, TEAMS, FIELD_STATS, TEAM_LIST, __INT, LAST_RESULT,
                 call, ret, SANDBOX_MODE, selectA, selectB, shown, fetches>>

\* change of the Sandbox Mode checkbox
ChangeSandbox ==
  /\ SANDBOX_MODE' = ~SANDBOX_MODE
  /\ shown' = updateRoundOptionsForCurrentSeeds(~SANDBOX_MODE, TEAMS, selectA, selectB)
  /\ CURRENT_ROUND' = "null"
  /\ compareEnabled' = FALSE
  /\ UNCHANGED <<RAW_ROWS, TEAMS, FIELD_STATS, TEAM_LIST, __INT, LAST_RESULT,
                 call, ret, selectA, selectB, fetches>>

\* the handler returns after an alert
Alert ==
  /\ ret' = Reported("alert")
  /\ UNCHANGED <<engine, call, page>>

\* the names passed to compareTeams: (cinderellaName, favoriteName), by seed
Roles(teamA, teamB) ==
  IF Number(teamA.seed) # Number(teamB.seed) /\ Number(teamA.seed) < Number(teamB.seed)
  THEN <<teamB.name, teamA.name>>
  ELSE <<teamA.name, teamB.name>>

RunCompare(names) ==
  \E c \in {compareTeams(FIELD_STATS, TEAMS, __INT, CURRENT_ROUND, names[1], names[2])} :
     /\ TEAMS' = c.teams
     /\ __INT' = c.INT
     /\ LAST_RESULT' = c.result
     /\ ret' = c.result
     /\ UNCHANGED <<RAW_ROWS, FIELD_STATS, TEAM_LIST, CURRENT_ROUND, call, page>>

\* the click handler, were the round not checked against the seeds
ClickCompareAnyRound ==
  /\ compareEnabled
  /\ IF Len(RAW_ROWS) = 0 THEN Alert
     ELSE IF selectA = "" \/ selectB = "" THEN Alert
     ELSE IF ~HasTeam(TEAMS, selectA) \/ ~HasTeam(TEAMS, selectB) THEN Alert
     ELSE IF CURRENT_ROUND = "null" THEN Alert
     ELSE RunCompare(Roles(getTeamByName(TEAMS, selectA), getTeamByName(TEAMS, selectB)))

\* click on the Compare button (a disabled button dispatches no click)
ClickCompare ==
  /\ compareEnabled
  /\ IF Len(RAW_ROWS) = 0 THEN Alert
     ELSE IF selectA = "" \/ selectB = "" THEN Alert
     ELSE IF ~HasTeam(TEAMS, selectA) \/ ~HasTeam(TEAMS, selectB) THEN Alert
     ELSE IF CURRENT_ROUND = "null" THEN Alert
     ELSE IF /\ ~SANDBOX_MODE
             /\ ~Includes(getPossibleRoundsForSeeds(SeedOf(TEAMS, selectA), SeedOf(TEAMS, selectB)),
                          CURRENT_ROUND)
          THEN Alert
     ELSE RunCompare(Roles(getTeamByName(TEAMS, selectA), getTeamByName(TEAMS, selectB)))

NextUI ==
  \/ \E f \in Datasets : LoadCSV(f)
  \/ \E name \in Options : ChangeTeamA(name)
  \/ \E name \in Options : ChangeTeamB(name)
  \/ \E value \in Rounds : ClickRoundOption(value)
  \/ ChangeSandbox
  \/ ClickCompare

SpecUI == Init /\ [][NextUI]_vars

(***************************************************************************)
(* The dataset selector.  A call of loadOfficialDatasetFromUrl stands at   *)
(* "fetch" (await fetch), at "text" (await res.text()), or has ended       *)
(* ("done", or "failed" in the catch block).                               *)
(***************************************************************************)
MaxRequests == 3

Request(f) == [file |-> f, pc |-> "fetch"]

\* change of the dataset select to another option: status 'Loading dataset',
\* then the call waits for fetch
ChangeDataset(f) ==
  /\ Len(fetches) < MaxRequests
  /\ IF fetches = <<>> THEN TRUE ELSE fetches[Len(fetches)].file # f
  /\ fetches' = Append(fetches, Request(f))
  /\ ret' = Reported("warn")
  /\ UNCHANGED <<engine, call, SANDBOX_MODE, selectA, selectB, shown, compareEnabled>>

\* the fetch of call i settles: with a response that is ok the call goes on
\* to await res.text(), otherwise it throws into the catch block
FetchSettles(i, ok) ==
  /\ fetches[i].pc = "fetch"
  /\ fetches' = [fetches EXCEPT ![i].pc = IF ok THEN "text" ELSE "failed"]
  /\ ret' = IF ok THEN ret ELSE Reported("error")
  /\ UNCHANGED <<engine, call, SANDBOX_MODE, selectA, selectB, shown, compareEnabled>>

\* the text of call i arrives: the rest of the function runs to its end
TextArrives(i) ==
  /\ fetches[i].pc = "text"
  /\ fetches' = [fetches EXCEPT ![i].pc = "done"]
  /\ Install(fetches[i].file)

NextFetch ==
  \/ \E f \in Datasets : ChangeDataset(f)
  \/ \E i \in DOMAIN fetches : \E ok \in BOOLEAN : FetchSettles(i, ok)
  \/ \E i \in DOMAIN fetches : TextArrives(i)

SpecFetch == Init /\ [][NextFetch]_vars

(***************************************************************************)
(* The topology resolver, the interaction primitive and the breadth layer  *)
(* called on their own.  call holds the arguments, ret collects the value  *)
(* of each function once it has been called on them.                       *)
(***************************************************************************)
MaxSeed == 17
MaxGap == 10500
MaxIndex == 10500

\* seeds as getNum yields them: a number or null
SeedInputs == 0..MaxSeed \cup {NULL}
RoundInputs == Rounds \cup {"null"}
GapInputs == (0 - MaxGap)..MaxGap
\* core z-scores below, just below and at the hit criterion
ZInputs == {0 - C(60), C(60) - 1, C(60)}

SeedCalls ==
  {[kind |-> "seeds", seedA |-> a, seedB |-> b, roundCode |-> r] :
     a \in SeedInputs, b \in SeedInputs, r \in RoundInputs}
GapCalls == {[kind |-> "gap", gap |-> g] : g \in GapInputs}
TeamCalls == {[kind |-> "team", coreZ |-> z] : z \in [CoreKeySet -> ZInputs]}
\* entrants by the z-scores of their win percentage and schedule polarity
\* (index + skew and index - skew) in a field with mean 0 and SD 1
ResumeCalls ==
  {[kind |-> "resume", index |-> R, skew |-> d] :
     R \in (0 - MaxIndex)..MaxIndex, d \in {0, C(30)}}

UnitStats == [mean |-> 0, sd |-> ONE]
UnitField == [wp |-> UnitStats, P |-> UnitStats]
ResumeOf(index, skew) ==
  computeResumeContextForTeam(UnitField,
    Assign(Underived, [wp |-> index + skew, P |-> index - skew]))

InitPure ==
  /\ EngineInit
  /\ PageInit
  /\ call \in SeedCalls \cup GapCalls \cup TeamCalls \cup ResumeCalls
  /\ ret = <<>>

Returns(key, value) ==
  /\ key \notin DOMAIN ret
  /\ ret' = (key :> value) @@ ret
  /\ UNCHANGED <<engine, page, call>>

GetIntraRegionRound ==
  /\ call.kind = "seeds"
  /\ Returns("intra", getIntraRegionRound(call.seedA, call.seedB))

GetPossibleRoundsForSeeds ==
  /\ call.kind = "seeds"
  /\ Returns("possible", getPossibleRoundsForSeeds(call.seedA, call.seedB))

IsRoundPossibleForSeeds ==
  /\ call.kind = "seeds"
  /\ Returns("isPossible", isRoundPossibleForSeeds(call.seedA, call.seedB, call.roundCode))

GetSeedRoundMeta ==
  /\ call.kind = "seeds"
  /\ Returns("meta", getSeedRoundMeta(call.seedA, call.seedB, call.roundCode))

HalfMirroredAdjust ==
  /\ call.kind = "gap"
  /\ Returns("adjust", halfMirroredAdjust(call.gap))

ComputeBreadthForTeam ==
  /\ call.kind = "team"
  /\ Returns("team", computeBreadthForTeam(Assign(Underived, [coreZ |-> call.coreZ])))

ComputeResumeContextForTeam ==
  /\ call.kind = "resume"
  /\ Returns("resume", ResumeOf(call.index, call.skew))

NextPure ==
  \/ ComputeResumeContextForTeam
  \/ GetIntraRegionRound
  \/ GetPossibleRoundsForSeeds
  \/ IsRoundPossibleForSeeds
  \/ GetSeedRoundMeta
  \/ HalfMirroredAdjust
  \/ ComputeBreadthForTeam

SpecPure == InitPure /\ [][NextPure]_vars

(***************************************************************************)
(* Properties                                                              *)
(***************************************************************************)
TeamNamed(name) == getTeamByName(TEAMS, name)

RECURSIVE SumOver(_, _)
SumOver(f, S) ==
  IF S = {} THEN 0
  ELSE LET k == CHOOSE x \in S : TRUE IN f[k] + SumOver(f, S \ {k})

CategoryTags == {"3pt", "ft", "paint", "to", "glass", "resume", "phys", "shotq", "var"}

\* totals mirror each other and the breakdown entries, each one category's
\* signed award to A, add up to A's total
Mirrored(int) ==
  /\ int.a = 0 - int.b
  /\ DOMAIN int.breakdown \subseteq CategoryTags
  /\ \A tag \in DOMAIN int.breakdown :
       int.breakdown[tag] \in {0 - C(50), 0 - C(25), C(25), C(50)}
  /\ SumOver(int.breakdown, DOMAIN int.breakdown) = int.a

\* C1: whatever loads and comparisons came before, the totals the Interaction
\* Engine holds and returns satisfy a = -b, and the breakdown entries are
\* single signed values (A's gain, B's loss) that sum to A's total.
C1_InteractionsMirrored ==
  /\ Mirrored(__INT)
  /\ LAST_RESULT.defined => Mirrored(LAST_RESULT.interactions)
  /\ ret.defined => Mirrored(ret.interactions) /\ ret.interactions = __INT

\* a comparison of two entrants, after an earlier one left its leverage on a
\* third, that moved both totals through categories of both signs
C1_Witness ==
  /\ ret.defined
  /\ ret.a # ret.b
  /\ ret.interactions.a # 0
  /\ \E s, t \in DOMAIN ret.interactions.breakdown :
       ret.interactions.breakdown[s] > 0 /\ ret.interactions.breakdown[t] < 0
  /\ \E i \in DOMAIN TEAMS :
       TEAMS[i].name \notin {ret.a, ret.b} /\ TEAMS[i].mi_matchup # NULL

SameMetrics(x, y) == \A k \in RawKeySet : x[k] = y[k]

\* C2: comparing two entrants with identical values in every metric field
\* leaves every category at 0 (no breakdown entry, both totals 0) and the
\* outcome is 'Push', whatever the rest of the field is.
C2_IdenticalEntrantsPush ==
  (ret.defined /\ ret.a # ret.b /\ SameMetrics(TeamNamed(ret.a), TeamNamed(ret.b)))
    => /\ ret.interactions.a = 0
       /\ ret.interactions.b = 0
       /\ DOMAIN ret.interactions.breakdown = {}
       /\ ret.predicted = "Push"

IntraRounds == {"R64", "R32", "S16", "E8"}

\* C3: for seeds a, b in 1..16 the possible rounds are one intra-region round
\* followed by F4 and Champ when a # b, and F4 and Champ alone when a = b.
C3_PossibleRoundCount ==
  ("possible" \in DOMAIN ret /\ call.seedA \in 1..16 /\ call.seedB \in 1..16)
    => IF call.seedA # call.seedB
       THEN /\ Len(ret.possible) = 3
            /\ ret.possible[1] \in IntraRounds
            /\ ret.possible[2] = "F4"
            /\ ret.possible[3] = "Champ"
       ELSE ret.possible = <<"F4", "Champ">>

C3_Witness ==
  /\ "possible" \in DOMAIN ret
  /\ call.seedA = 1
  /\ call.seedB = 1
  /\ ret.possible = <<"F4", "Champ">>

\* the seeds of a region in bracket order: neighbours play in the first round,
\* each four form a pod, each eight a half
BracketLine == <<1, 16, 8, 9, 5, 12, 4, 13, 6, 11, 3, 14, 7, 10, 2, 15>>
Slot(seed) == (CHOOSE i \in DOMAIN BracketLine : BracketLine[i] = seed) - 1
SamePod(a, b) == Slot(a) \div 4 = Slot(b) \div 4
SameHalf(a, b) == Slot(a) \div 8 = Slot(b) \div 8
FirstRoundPairing(a, b) == a + b = 17

\* C4: for distinct seeds in 1..16 the intra-region round is R64 for a
\* first-round pairing within a pod, R32 for other seeds of one pod, S16 for
\* different pods of one half and E8 for different halves; it is the same for
\* the seeds swapped; 1 vs 16 gives R64 and possible rounds R64, F4, Champ.
C4_IntraRegionRound ==
  ("intra" \in DOMAIN ret /\ call.seedA \in 1..16 /\ call.seedB \in 1..16
     /\ call.seedA # call.seedB)
    => LET a == call.seedA
           b == call.seedB
       IN  /\ ret.intra = (IF SamePod(a, b) /\ FirstRoundPairing(a, b) THEN "R64"
                           ELSE IF SamePod(a, b) THEN "R32"
                           ELSE IF SameHalf(a, b) THEN "S16"
                           ELSE "E8")
           /\ ret.intra = getIntraRegionRound(b, a)
           /\ (a = 1 /\ b = 16) =>
                /\ ret.intra = "R64"
                /\ "possible" \in DOMAIN ret => ret.possible = <<"R64", "F4", "Champ">>

C4_Witness ==
  /\ "intra" \in DOMAIN ret
  /\ "possible" \in DOMAIN ret
  /\ call.seedA = 1
  /\ call.seedB = 16
  /\ ret.intra = "R64"
  /\ ret.possible = <<"R64", "F4", "Champ">>

RoundRank(r) ==
  CASE r = "R64" -> 1 [] r = "R32" -> 2 [] r = "S16" -> 3
    [] r = "E8" -> 4 [] r = "F4" -> 5 [] r = "Champ" -> 6 [] OTHER -> 0

\* C5: on the same seeds and round code, isRoundPossibleForSeeds, membership
\* in the list of getPossibleRoundsForSeeds and isAllowed of getSeedRoundMeta
\* agree; the list holds round codes in strictly increasing canonical order
\* (so without duplicates), and the descriptor's earliest round is its first
\* element.
C5_RoundQueriesAgree ==
  /\ ("isPossible" \in DOMAIN ret /\ "possible" \in DOMAIN ret)
       => ret.isPossible = (call.roundCode \in {ret.possible[i] : i \in DOMAIN ret.possible})
  /\ ("isPossible" \in DOMAIN ret /\ "meta" \in DOMAIN ret)
       => ret.isPossible = ret.meta.isAllowed
  /\ "possible" \in DOMAIN ret
       => /\ \A i \in DOMAIN ret.possible : RoundRank(ret.possible[i]) > 0
          /\ \A i, j \in DOMAIN ret.possible :
               i < j => RoundRank(ret.possible[i]) < RoundRank(ret.possible[j])
  /\ ("meta" \in DOMAIN ret /\ "possible" \in DOMAIN ret)
       => /\ ret.meta.possible = ret.possible
          /\ ret.meta.earliest = ret.possible[1]

C5_Witness ==
  /\ {"possible", "isPossible", "meta"} \subseteq DOMAIN ret
  /\ call.seedA = 4
  /\ call.seedB = 5
  /\ call.roundCode = "R32"
  /\ ret.isPossible
  /\ ret.meta.earliest = "R32"

\* C6: halfMirroredAdjust gives the same value for a gap and its negation;
\* the value is 0 below magnitude 0.50, 0.25 from 0.50 to below 1.00 and 0.50
\* from 1.00 on, and never drops as the magnitude grows.
C6_HalfMirroredLevels ==
  "adjust" \in DOMAIN ret
    => LET g == call.gap
           mag == IF g < 0 THEN 0 - g ELSE g
       IN  /\ ret.adjust = halfMirroredAdjust(0 - g)
           /\ ret.adjust \in {0, C(25), C(50)}
           /\ mag < C(50) => ret.adjust = 0
           /\ (C(50) <= mag /\ mag < C(100)) => ret.adjust = C(25)
           /\ mag >= C(100) => ret.adjust = C(50)
           /\ mag > 0 => halfMirroredAdjust(mag - 1) <= ret.adjust

C6_Witness ==
  /\ "adjust" \in DOMAIN ret
  /\ call.gap = 0 - C(50)
  /\ ret.adjust = C(25)

EfficiencyGroup == {"offeff", "defeff", "adjem", "def_efg"}
ShootingGroup == {"ts", "efg"}
PossessionGroup == {"epr", "to"}
HitsIn(z, group) == Cardinality({k \in group : z[k] >= C(60)})

\* C7: after computeBreadthForTeam, breadth lies in 0..1.00, equals 0.10 per
\* efficiency hit plus 0.15 per shooting hit plus 0.15 per possession hit (a
\* hit being a core z-score of at least 0.60), and does not drop when one
\* more core z-score becomes a hit.
C7_BreadthBounded ==
  "team" \in DOMAIN ret
    => LET z == call.coreZ
           breadth == ret.team.breadth
       IN  /\ 0 <= breadth
           /\ breadth <= ONE
           /\ breadth = C(10) * HitsIn(z, EfficiencyGroup)
                        + C(15) * HitsIn(z, ShootingGroup)
                        + C(15) * HitsIn(z, PossessionGroup)
           /\ \A k \in CoreKeySet :
                z[k] < C(60) =>
                  computeBreadthForTeam(
                    Assign(Underived, [coreZ |-> [z EXCEPT ![k] = C(60)]])).breadth >= breadth

C7_Witness ==
  /\ "team" \in DOMAIN ret
  /\ \A k \in CoreKeySet : call.coreZ[k] = C(60)
  /\ ret.team.breadth = ONE
  /\ ret.team.breadthTotalHits = 8

\* C8: after every load and comparison every entrant has
\* mi_base = mibs + breadth + resumeR, and computeMIBase called again,
\* directly or through computeResumeContextForTeam, computeStaticIdentities
\* or computeFinalMI, leaves the entrant's mi_base as it is.
C8_MIBaseIsSum ==
  \A i \in DOMAIN TEAMS :
    LET t == TEAMS[i]
    IN  /\ IsNum(t.mibs) /\ IsNum(t.breadth) /\ IsNum(t.resumeR)
        /\ t.mi_base = t.mibs + t.breadth + t.resumeR
        /\ computeMIBase(t) = t
        /\ computeResumeContextForTeam(FIELD_STATS, t).mi_base = t.mi_base
        /\ computeStaticIdentities(TEAMS)[i].mi_base = t.mi_base
        /\ \A adj \in {0 - C(25), 0, C(50)} : computeFinalMI(t, adj).mi_base = t.mi_base

\* an entrant with a hit, a resume adjustment and a comparison behind it
C8_Witness ==
  \E i \in DOMAIN TEAMS :
    /\ TEAMS[i].breadth > 0
    /\ TEAMS[i].resumeR < 0
    /\ TEAMS[i].mi_matchup # NULL
    /\ TEAMS[i].mi_base = TEAMS[i].mibs + TEAMS[i].breadth + TEAMS[i].resumeR

\* no field-wide win-percentage or schedule-hardness snapshot, or an entrant
\* without win percentage (null wins or losses, or no games) or without
\* schedule-hardness percentile
LacksResumeData(FS, t) ==
  \/ "wp" \notin DOMAIN FS
  \/ "P" \notin DOMAIN FS
  \/ t.w = NULL
  \/ t.l = NULL
  \/ t.w + t.l <= 0
  \/ t.P = NULL

\* C9: an entrant without resume data (snapshot or own value missing) has
\* resume adjustment 0, tier 'Average', and mi_base = mibs + breadth.
C9_NeutralResume ==
  \A i \in DOMAIN TEAMS :
    LET t == TEAMS[i]
    IN  LacksResumeData(FIELD_STATS, t)
          => /\ t.resumeR = 0
             /\ t.resumeRTier = "Average"
             /\ IsNum(t.mibs) /\ IsNum(t.breadth)
             /\ t.mi_base = t.mibs + t.breadth

\* both snapshots exist, one entrant has null wins and a neutral resume, and
\* another entrant's resume is adjusted
C9_Witness ==
  /\ "wp" \in DOMAIN FIELD_STATS
  /\ "P" \in DOMAIN FIELD_STATS
  /\ \E i, j \in DOMAIN TEAMS :
       /\ TEAMS[i].w = NULL
       /\ TEAMS[i].P # NULL
       /\ TEAMS[i].resumeR = 0
       /\ TEAMS[i].resumeRTier = "Average"
       /\ TEAMS[j].resumeR # 0

TierMultiplier(tier) ==
  CASE tier = "Elite" -> C(100)
    [] tier = "Strong" -> C(95)
    [] tier = "Above Average" -> C(90)
    [] tier = "Weak" -> C(70)
    [] tier = "Fragile" -> C(50)
    [] OTHER -> C(85)

\* C10: a comparison returns miA = mi_base(A) + f(A) x interactions.a and
\* miB = mi_base(B) + f(B) x interactions.b with f the resume-tier multiplier
\* and interactions the one run of the Interaction Engine; diff = miA - miB;
\* predicted is A's name when diff > 0, B's name when diff < 0 and 'Push'
\* when diff = 0 (for two different entrants: only then).
C10_FinalScores ==
  ret.defined
    => LET A == TeamNamed(ret.a)
           B == TeamNamed(ret.b)
           int == ret.interactions
       IN  /\ int = __INT
           /\ ret.miA = A.mi_base + Div(TierMultiplier(A.resumeRTier) * int.a, ONE)
           /\ ret.miB = B.mi_base + Div(TierMultiplier(B.resumeRTier) * int.b, ONE)
           /\ ret.diff = ret.miA - ret.miB
           /\ ret.diff > 0 => ret.predicted = A.name
           /\ ret.diff < 0 => ret.predicted = B.name
           /\ ret.diff = 0 => ret.predicted = "Push"
           /\ ret.a # ret.b =>
                /\ ret.predicted = A.name => ret.diff > 0
                /\ ret.predicted = B.name => ret.diff < 0
                /\ ret.predicted = "Push" => ret.diff = 0

\* the second entrant wins on leverage scaled by a multiplier other than that
\* of 'Average'
C10_Witness ==
  /\ ret.defined
  /\ ret.a # ret.b
  /\ ret.interactions.a # 0
  /\ TeamNamed(ret.a).resumeRTier \notin {"Average", "Elite"}
  /\ ret.diff < 0
  /\ ret.predicted = ret.b

(***************************************************************************)
(* Runs that differ in the seeds and in the selected round                 *)
(***************************************************************************)
Loaded == RAW_ROWS # <<>>
LoadedFile == CHOOSE f \in Files : RowsOf[f] = RAW_ROWS

\* other Seed columns for the same rows: each seed mirrored (unseeded rows
\* seeded), no row seeded, every row on the same seed line
Reseedings == {"mirrored", "unseeded", "level"}

NewSeed(how, seed) ==
  CASE how = "mirrored" -> IF seed = NULL THEN 5 ELSE 17 - seed
    [] how = "unseeded" -> NULL
    [] how = "level" -> 3

Reseed(rows, how) == [i \in DOMAIN rows |-> [rows[i] EXCEPT !.seed = NewSeed(how, @)]]

\* the load of each file under each reseeding
Reseeded ==
  Eager([f \in Files |->
     Eager([how \in Reseedings |-> buildTeamsFromCSV(Reseed(RowsOf[f], how))])])

\* what a comparison scores
Scoring(res) ==
  [a |-> res.a, b |-> res.b, interactions |-> res.interactions,
   miA |-> res.miA, miB |-> res.miB, diff |-> res.diff, predicted |-> res.predicted]

ScoringsFrom(teams, a, b, int) ==
  {Scoring(compareTeamsFrom(teams, round, a, b, int).result) : round \in Rounds \cup {"null"}}

\* the scorings of x against y in the run alt, one for each round selection
Scorings(alt, x, y) ==
  LET a == getTeamByName(alt.teams, x)
      b == getTeamByName(alt.teams, y)
  IN  ScoringsFrom(alt.teams, a, b, computeInteractions(alt.stats, FreshINT, a, b))

\* C11: a run on the same rows with other seeds, and with any round selected,
\* gives every entrant the mi_base it has in this run and gives the comparison
\* just made the same interaction totals, breakdown, miA, miB, diff and
\* predicted winner.
C11_SeedsRoundNonScoring ==
  Loaded =>
    \A how \in Reseedings :
      LET alt == Reseeded[LoadedFile][how]
      IN  /\ DOMAIN alt.teams = DOMAIN TEAMS
          /\ \A i \in DOMAIN TEAMS :
                /\ alt.teams[i].name = TEAMS[i].name
                /\ alt.teams[i].mi_base = TEAMS[i].mi_base
          /\ ret.defined => Scorings(alt, ret.a, ret.b) = {Scoring(ret)}

\* a comparison with nonzero leverage of two entrants whose seed, identity
\* index, rating and topology descriptor are different in the other run
C11_Witness ==
  /\ ret.defined
  /\ ret.a # ret.b
  /\ ret.interactions.a # 0
  /\ LET alt == Reseeded[LoadedFile]["mirrored"]
         A == TeamNamed(ret.a)
         altA == getTeamByName(alt.teams, ret.a)
         altB == getTeamByName(alt.teams, ret.b)
     IN  /\ altA.seed # A.seed
         /\ altA.cisStatic # A.cisStatic
         /\ altA.mi_rating # A.mi_rating
         /\ getSeedRoundMeta(altA.seed, altB.seed, "R32") # ret.seedMeta

(***************************************************************************)
(* The accumulator across comparisons                                      *)
(***************************************************************************)
\* the entrants as the load of the current rows left them
AsLoaded(name) == getTeamByName(Built[LoadedFile].teams, name)

\* C12: whatever comparisons came before, the totals and breakdown a
\* comparison returns are those the nine categories award, starting from
\* zero, to the two entrants as loaded under the current field statistics;
\* the accumulator holds exactly them when the comparison returns.
C12_AccumulatorReset ==
  ret.defined =>
    /\ ret.interactions =
         RunCategories(FIELD_STATS, FreshINT, AsLoaded(ret.a), AsLoaded(ret.b))
    /\ __INT = ret.interactions

\* a comparison with nonzero totals made after another comparison left other
\* nonzero totals with a third entrant
C12_Witness ==
  /\ ret.defined
  /\ ret.a # ret.b
  /\ ret.interactions.a # 0
  /\ \E i \in DOMAIN TEAMS :
       /\ TEAMS[i].name \notin {ret.a, ret.b}
       /\ TEAMS[i].mi_int_raw # NULL
       /\ TEAMS[i].mi_int_raw \notin {0, ret.interactions.a, ret.interactions.b}

(***************************************************************************)
(* The result object after it was returned                                 *)
(***************************************************************************)
\* C13: a comparison that follows a comparison leaves the entrant records
\* the earlier result references (its a and b) as they were when that result
\* was returned.
C13_ResultNeverMutated ==
  [][(ret.defined /\ ret'.defined)
       => \A name \in {ret.a, ret.b} : getTeamByName(TEAMS', name) = TeamNamed(name)]_vars

(***************************************************************************)
(* Names that do not resolve                                               *)
(***************************************************************************)
\* C14: a step returns a result only for two names of the loaded collection;
\* the step that reports the invalid selection returns no result and leaves
\* LAST_RESULT, the entrant collection, the field statistics and the
\* accumulator (the whole engine state) unchanged.
C14_UnknownNameFails ==
  [][/\ ret'.defined => HasTeam(TEAMS, ret'.a) /\ HasTeam(TEAMS, ret'.b)
     /\ ret' = Reported("error") => ~ret'.defined /\ UNCHANGED engine]_vars

\* an invalid selection reported with entrants loaded and an earlier result
\* and its totals in place
C14_Witness ==
  /\ ret = Reported("error")
  /\ TEAMS # <<>>
  /\ LAST_RESULT.defined
  /\ __INT.a # 0

(***************************************************************************)
(* A load that yields no entrant                                           *)
(***************************************************************************)
\* C15: when the loaded rows yield no entrant, so that field statistics,
\* layers and identities are computed on an empty collection, the load
\* reports an error.
C15_EmptyCollectionFails ==
  (Loaded /\ TEAMS = <<>>) => ret = Reported("error")

(***************************************************************************)
(* Missing data                                                            *)
(***************************************************************************)
\* a number of the size of a score (not one made from an absent value)
IsScore(x) == x # NULL /\ Abs(x) < 100 * ONE

LookupKeys == RawKeySet \cup {"wp", "P"}

\* C16: for every entrant and metric, the z-score lookups yield 0 when the
\* metric has no field-statistics entry, the entrant has no value for it or
\* the field SD is 0; every loaded entrant has numbers in all its scoring
\* fields, and every comparison that involves an entrant without seed,
\* record or some metric yields a result made of numbers.
C16_NeutralLookups ==
  /\ \A i \in DOMAIN TEAMS : \A key \in LookupKeys :
       LET t == TEAMS[i]
       IN  /\ (key \notin DOMAIN FIELD_STATS \/ t[key] = NULL \/ FIELD_STATS[key].sd = 0)
                => /\ getZ(FIELD_STATS, t, key, FALSE) = 0
                   /\ getZ(FIELD_STATS, t, key, TRUE) = 0
                   /\ orientAndZ(FIELD_STATS, t, key, "normal") = 0
                   /\ orientAndZ(FIELD_STATS, t, key, "invert") = 0
           /\ key \in DOMAIN FIELD_STATS
                => /\ zScore(NULL, FIELD_STATS[key].mean, FIELD_STATS[key].sd) = 0
                   /\ zScore(t[key], FIELD_STATS[key].mean, 0) = 0
  /\ \A i \in DOMAIN TEAMS :
       LET t == TEAMS[i]
       IN  /\ \A k \in CoreKeySet : IsScore(t.coreZ[k])
           /\ IsScore(t.mibs) /\ IsScore(t.breadth) /\ IsScore(t.resumeR)
           /\ IsScore(t.mi_base)
  /\ ret.defined =>
       /\ IsScore(ret.miA) /\ IsScore(ret.miB) /\ IsScore(ret.diff)
       /\ IsScore(ret.interactions.a) /\ IsScore(ret.interactions.b)
       /\ ret.predicted \in {ret.a, ret.b, "Push"}

\* a result for an entrant without seed, record and several metrics, one of
\* them read inverted, against another entrant, in a field where one metric
\* has no statistics and another has SD 0
C16_Witness ==
  /\ ret.defined
  /\ ret.a # ret.b
  /\ LET t == TeamNamed(ret.a)
     IN  /\ t.seed = NULL /\ t.w = NULL /\ t.l = NULL
         /\ t.defeff = NULL /\ t.threepp = NULL
  /\ "ft_pct" \notin DOMAIN FIELD_STATS
  /\ \E key \in DOMAIN FIELD_STATS : FIELD_STATS[key].sd = 0

(***************************************************************************)
(* One snapshot per dataset                                                *)
(***************************************************************************)
\* the rows with a Team cell, in file order
NamedRows == SelectSeq(RAW_ROWS, LAMBDA row : row.name # "")

\* C17: whatever was loaded and compared before, the entrant collection holds
\* exactly the named rows of the rows loaded last, with their cells;
\* FIELD_STATS is what computeFieldStats yields on these entrants; and
\* computing the layers against FIELD_STATS, then the identities, on the
\* entrants as they are changes none of their fields.
C17_OneSnapshot ==
  Loaded =>
    /\ Len(TEAMS) = Len(NamedRows)
    /\ \A i \in DOMAIN TEAMS :
         /\ TEAMS[i].name = NamedRows[i].name
         /\ \A key \in RawKeySet \cup {"seed"} : TEAMS[i][key] = getNum(NamedRows[i], key)
    /\ TEAM_LIST = SortNames([i \in DOMAIN TEAMS |-> TEAMS[i].name])
    /\ \E fs \in {computeFieldStats(TEAMS)} :
         /\ fs.stats = FIELD_STATS
         /\ fs.teams = TEAMS
    /\ computeStaticIdentities(computeAllTeamLayers(FIELD_STATS, TEAMS)) = TEAMS

\* a dataset just loaded in place of another in which a comparison was made,
\* none of whose compared entrants it contains
C17_Witness ==
  /\ ret = Reported("ok")
  /\ LAST_RESULT.defined
  /\ ~HasTeam(TEAMS, LAST_RESULT.a)
  /\ ~HasTeam(TEAMS, LAST_RESULT.b)
  /\ Len(TEAMS) > 1
  /\ \E i \in DOMAIN TEAMS : TEAMS[i].profileMarks # <<>>
  /\ \E i \in DOMAIN TEAMS : TEAMS[i].cisStatic > 0

(***************************************************************************)
(* Runs that differ in the profile marks                                   *)
(***************************************************************************)
Unmarked(team) == Assign(team, [profileMarks |-> <<>>])

\* the current collection with no mark attached to any entrant
UnmarkedRun == [teams |-> [i \in DOMAIN TEAMS |-> Unmarked(AsLoaded(TEAMS[i].name))],
                stats |-> FIELD_STATS]

\* C18: in the run that is the same except that no entrant has a profile
\* mark, every entrant has the same mi_base and the comparison just made
\* has the same interaction totals, final scores, margin and predicted
\* winner.
C18_MarksNonScoring ==
  Loaded =>
    /\ \A i \in DOMAIN TEAMS : computeMIBase(UnmarkedRun.teams[i]).mi_base = TEAMS[i].mi_base
    /\ ret.defined => Scoring(ret) \in Scorings(UnmarkedRun, ret.a, ret.b)

(***************************************************************************)
(* Field statistics                                                        *)
(***************************************************************************)
TrackedKeys == {METRICS_FOR_Z[i] : i \in DOMAIN METRICS_FOR_Z} \cup {"wp", "P"}

\* the values the entrants contribute to the statistics of key
Contributed(key) == NonNull([i \in DOMAIN TEAMS |-> TEAMS[i][key]])

SumSquares(arr, mean) == SumSeq([i \in DOMAIN arr |-> (arr[i] - mean) * (arr[i] - mean)])

\* what re-z-scoring may be off by: one hundredth
Tolerance == C(1)

\* C19: FIELD_STATS has an entry for exactly the tracked metrics some entrant
\* has a value for; its mean is the sum of the non-null values over their
\* number N and its SD is the root of the sum of squared deviations over N;
\* when every entrant contributes and two values differ, the z-scores of
\* the contributing entrants have mean 0 and SD 1 (within the tolerance).
C19_PopulationStats ==
  /\ DOMAIN FIELD_STATS \subseteq TrackedKeys
  /\ \A key \in TrackedKeys :
       LET vals == Contributed(key)
           N == Len(vals)
       IN  /\ key \in DOMAIN FIELD_STATS <=> N > 0
           /\ N > 0 =>
                LET mean == FIELD_STATS[key].mean
                    sd == FIELD_STATS[key].sd
                    variance == Div(SumSquares(vals, mean), N)
                    zs == [i \in DOMAIN vals |-> zScore(vals[i], mean, sd)]
                    zMean == Div(SumSeq(zs), N)
                    zVariance == Div(SumSquares(zs, zMean), N)
                IN  /\ mean = Div(SumSeq(vals), N)
                    /\ sd >= 0
                    /\ sd * sd <= variance
                    /\ variance < (sd + 1) * (sd + 1)
                    /\ (N = Len(TEAMS) /\ \E i, j \in DOMAIN vals : vals[i] # vals[j])
                         => /\ Abs(zMean) <= Tolerance
                            /\ (ONE - Tolerance) * (ONE - Tolerance) <= zVariance
                            /\ zVariance <= (ONE + Tolerance) * (ONE + Tolerance)

\* a field of three entrants with a metric all of them contribute to with
\* differing values, one that an entrant lacks, and one nobody has
C19_Witness ==
  /\ Len(TEAMS) = 3
  /\ \E key \in TrackedKeys :
       /\ Len(Contributed(key)) = 3
       /\ Cardinality({Contributed(key)[i] : i \in 1..3}) = 3
  /\ \E key \in TrackedKeys : Len(Contributed(key)) \in {1, 2}
  /\ \E key \in TrackedKeys : key \notin DOMAIN FIELD_STATS

(***************************************************************************)
(* Resume tiers                                                            *)
(***************************************************************************)
ResumeBand(R) ==
  IF R >= C(100) THEN <<C(15), "Elite">>
  ELSE IF R >= C(80) THEN <<C(10), "Strong">>
  ELSE IF R >= C(60) THEN <<C(5), "Above Average">>
  ELSE IF R >= 0 THEN <<0, "Average">>
  ELSE IF R >= 0 - C(80) THEN <<0 - C(15), "Weak">>
  ELSE <<0 - C(25), "Fragile">>

MarkRules == 1..8

MarksOfRule(rule) ==
  CASE rule = 1 -> {"Offensive Rigidity - Severe", "Offensive Rigidity - Moderate"}
    [] rule = 2 -> {"Unstable Perimeter - Severe", "Unstable Perimeter - Moderate"}
    [] rule = 3 -> {"Cold Arc Team - Severe", "Cold Arc Team - Moderate"}
    [] rule = 4 -> {"Undisciplined Defense - Severe", "Undisciplined Defense - Moderate"}
    [] rule = 5 -> {"Soft Interior - Severe", "Soft Interior - Moderate"}
    [] rule = 6 -> {"Perimeter Leakage - Severe", "Perimeter Leakage - Moderate"}
    [] rule = 7 -> {"Tempo Strain - Severe", "Tempo Strain - Moderate"}
    [] rule = 8 -> {"Turnover Fragility - Severe", "Turnover Fragility - Moderate"}

\* the metrics whose z-scores make the Plan-B composite of rule 1
PlanBKeys(team) ==
  LET s2 == ValOr0(team.pct_pts_2)
      s3 == ValOr0(team.pct_pts_3)
      sft == ValOr0(team.pct_pts_ft)
      primaryShare == Max2(Max2(s2, s3), sft)
  IN  IF primaryShare = s2 THEN {"threepp", "ft_pct"}
      ELSE IF primaryShare = s3 THEN {"nb2", "ft_pct"}
      ELSE {"nb2", "threepp"}

\* the metrics a rule z-scores (value and field statistics needed)
ZKeysOfRule(rule, team) ==
  CASE rule = 1 -> PlanBKeys(team)
    [] rule = 2 -> {}
    [] rule = 3 -> {"threepp"}
    [] rule = 4 -> {"spp", "otpp", "opp_ftr"}
    [] rule = 5 -> {"def_efg", "blk"}
    [] rule = 6 -> {"opp_3pr", "opp_3pp"}
    [] rule = 7 -> {"tempo", "epr", "to"}
    [] rule = 8 -> {"to", "epr"}

\* the metrics a rule reads as raw values only
RawKeysOfRule(rule) == IF rule = 2 THEN {"threepr", "threepp"} ELSE {}

LacksInput(rule, team) ==
  \/ \E k \in ZKeysOfRule(rule, team) : k \notin DOMAIN FIELD_STATS \/ team[k] = NULL
  \/ \E k \in RawKeysOfRule(rule) : team[k] = NULL

HasMarkOf(rule, team) == \E i \in DOMAIN team.profileMarks : team.profileMarks[i] \in MarksOfRule(rule)

SkipsWithoutInput(rules) ==
  \A i \in DOMAIN TEAMS : \A rule \in rules :
     LacksInput(rule, TEAMS[i]) => ~HasMarkOf(rule, TEAMS[i])

\* C21: no loaded entrant carries a mark of one of the 8 rules when a metric
\* value or a field-statistics entry that rule depends on is absent for it,
\* rule 1 (Offensive Rigidity) with the two metrics of its Plan-B composite
\* included.
C21_RulesSkippedWithoutData == SkipsWithoutInput(MarkRules)

(***************************************************************************)
(* Schedule-hardness percentile                                            *)
(***************************************************************************)
Observed(key) == {TEAMS[i][key] : i \in DOMAIN TEAMS} \ {NULL}

\* C22: when two observed schedule-strength values differ, every entrant with
\* a value has P = 1 - (sos - min)/(max - min), in [0, 1], 1.0 at the lowest
\* value and 0.0 at the highest; when all observed values are equal no
\* entrant has a P, FIELD_STATS has no P entry and every resume adjustment
\* is the neutral one.
C22_HardnessPercentile ==
  LET sos == Observed("sos")
  IN  IF \E x, y \in sos : x < y
      THEN LET lo == CHOOSE x \in sos : \A y \in sos : x <= y
               hi == CHOOSE x \in sos : \A y \in sos : x >= y
           IN  /\ "P" \in DOMAIN FIELD_STATS
               /\ \A i \in DOMAIN TEAMS :
                    LET t == TEAMS[i]
                    IN  IF t.sos = NULL THEN t.P = NULL
                        ELSE /\ t.P = ONE - FDiv(t.sos - lo, hi - lo)
                             /\ t.P >= 0 /\ t.P <= ONE
                             /\ t.sos = lo => t.P = ONE
                             /\ t.sos = hi => t.P = 0
      ELSE /\ "P" \notin DOMAIN FIELD_STATS
           /\ \A i \in DOMAIN TEAMS :
                /\ TEAMS[i].P = NULL
                /\ TEAMS[i].resumeR = 0
                /\ TEAMS[i].resumeRTier = "Average"

\* three different schedule values: one entrant strictly between the ends
C22_Witness ==
  /\ Cardinality(Observed("sos")) = 3
  /\ \E i, j, k \in DOMAIN TEAMS :
       /\ TEAMS[i].P = ONE /\ TEAMS[j].P = 0
       /\ TEAMS[k].P > 0 /\ TEAMS[k].P < ONE
       /\ TEAMS[i].sos < TEAMS[k].sos /\ TEAMS[k].sos < TEAMS[j].sos

(***************************************************************************)
(* Weights of the core composite                                           *)
(***************************************************************************)
RowsOfKeys(team, keys) == SelectSeq(team.coreDetails, LAMBDA row : row.key \in keys)
WeightSum(rows) == SumSeq([i \in DOMAIN rows |-> rows[i].weight])
PointSum(rows) == SumSeq([i \in DOMAIN rows |-> rows[i].points])

\* each weight is cut to a multiple of 0.0001, so a sum of n weights is less
\* than n units below the exact sum
SumsTo(rows, total) == WeightSum(rows) <= total /\ total - WeightSum(rows) < Len(rows)

LaneKeys == CoreKeySet \ {"adjem"}

\* C23, as stated: the eight weights of the coreDetails rows of every loaded
\* entrant, applied to the eight core z-scores, add up to 1.0.
C23_WeightsSumToOne ==
  \A i \in DOMAIN TEAMS : SumsTo(RowsOfKeys(TEAMS[i], CoreKeySet), ONE)

\* C23, amended: the seven weights of the three lanes (45%, 35%, 20%) add up
\* to 1.0, the efficiency-margin stabilizer has the further weight 0.10, so
\* that the eight weights add up to 1.10; mibs is the sum of the eight
\* weighted z-scores listed in the rows.
C23_LaneWeightsSumToOne ==
  \A i \in DOMAIN TEAMS :
     LET t == TEAMS[i]
     IN  /\ Len(t.coreDetails) = 8
         /\ {t.coreDetails[j].key : j \in 1..8} = CoreKeySet
         /\ SumsTo(RowsOfKeys(t, {"offeff", "defeff"}), C(45))
         /\ SumsTo(RowsOfKeys(t, {"ts", "efg", "def_efg"}), C(35))
         /\ SumsTo(RowsOfKeys(t, {"epr", "to"}), C(20))
         /\ SumsTo(RowsOfKeys(t, LaneKeys), ONE)
         /\ WeightSum(RowsOfKeys(t, {"adjem"})) = C(10)
         /\ SumsTo(RowsOfKeys(t, CoreKeySet), C(110))
         /\ \A j \in 1..8 :
              LET row == t.coreDetails[j]
              IN  /\ row.z = t.coreZ[row.key]
                  /\ row.points = FMul(row.weight, row.z)
         /\ t.mibs = PointSum(t.coreDetails)

\* an entrant whose eight core z-scores are all nonzero
C23_Witness ==
  \E i \in DOMAIN TEAMS :
     /\ \A k \in CoreKeySet : TEAMS[i].coreZ[k] # 0
     /\ TEAMS[i].mibs # 0
     /\ TEAMS[i].coreDetails[3].points # 0

(***************************************************************************)
(* Static identity scores                                                  *)
(***************************************************************************)
Hundred == 100 * ONE

\* the normalised scores of one kind: raw names the raw field, static the
\* normalised one
NormalisedOverField(raw, static) ==
  /\ \A i \in DOMAIN TEAMS :
       LET t == TEAMS[i]
       IN  /\ t[static] >= 0 /\ t[static] <= Hundred
           /\ t.seed = NULL => t[static] = 0
           /\ (t[raw] = NULL \/ t[raw] <= 0) => t[static] = 0
  /\ (\E i \in DOMAIN TEAMS : TEAMS[i][raw] # NULL /\ TEAMS[i][raw] > 0) =>
       /\ \E i \in DOMAIN TEAMS : TEAMS[i][static] = Hundred
       /\ \A i, j \in DOMAIN TEAMS :
            (TEAMS[i][static] = Hundred) => TEAMS[j][raw] <= TEAMS[i][raw]

\* C24: in every state after a load every entrant's CIS and FAS lie in
\* [0, 100], are 0 for an entrant without a seed and for one whose raw score
\* is negative, zero or undefined, and the largest CIS (FAS) of the field is
\* exactly 100 whenever some raw CIS (FAS) is positive.
C24_IdentitiesNormalised ==
  /\ NormalisedOverField("cis_raw", "cisStatic")
  /\ NormalisedOverField("fas_raw", "fasStatic")

\* a field with an unseeded entrant, a top seed whose raw CIS is 0, and two
\* levels of positive CIS and FAS
C24_Witness ==
  /\ \E i \in DOMAIN TEAMS : TEAMS[i].seed = NULL /\ TEAMS[i].cisStatic = 0 /\ TEAMS[i].fasStatic = 0
  /\ \E i, j \in DOMAIN TEAMS :
       /\ TEAMS[i].cisStatic = Hundred
       /\ TEAMS[j].cisStatic > 0 /\ TEAMS[j].cisStatic < Hundred
  /\ \E i, j \in DOMAIN TEAMS :
       /\ TEAMS[i].fasStatic = Hundred
       /\ TEAMS[j].fasStatic > 0 /\ TEAMS[j].fasStatic < Hundred

(***************************************************************************)
(* Cosmetic rating                                                         *)
(***************************************************************************)
\* Math.round of 100 * P, clamped to 1..99
RatingOf(P) ==
  LET r == (P * 100 + (ONE \div 2)) \div ONE
  IN  IF r < 1 THEN 1 ELSE IF r > 99 THEN 99 ELSE r

\* the entrants ranked by mi_base, lowest first
RankOf(i) ==
  Cardinality({j \in DOMAIN TEAMS :
     \/ TEAMS[j].mi_base < TEAMS[i].mi_base
     \/ TEAMS[j].mi_base = TEAMS[i].mi_base /\ j < i})

RankPercentile(i) == Div((2 * RankOf(i) + 1) * ONE, 2 * Len(TEAMS))

RatedByRank(S) ==
  \A i \in S :
     /\ TEAMS[i].mi_rating \in 1..99
     /\ TEAMS[i].mi_rating = RatingOf(RankPercentile(i))

\* C25: every loaded entrant, seeded or not, has a rating that is an integer
\* in 1..99, the rounded and clamped value of 100 times its rank-percentile.
C25_EveryEntrantRated == RatedByRank(DOMAIN TEAMS)

(***************************************************************************)
(* Rank-percentiles                                                        *)
(***************************************************************************)
\* C26: the percentiles computeStaticIdentities assigns to the N loaded
\* entrants, seeded or not, are exactly the N distinct values (i + 0.5)/N for
\* i in 0..N-1, an entrant with a strictly greater mi_base has a strictly
\* greater percentile, and a seeded entrant carries the one assigned to it.
C26_RankPercentiles ==
  LET N == Len(TEAMS)
  IN  \A perf \in {perfMap(TEAMS)} :
        /\ {perf[i] : i \in 1..N} = {Div((2 * k + 1) * ONE, 2 * N) : k \in 0..(N - 1)}
        /\ Cardinality({perf[i] : i \in 1..N}) = N
        /\ \A i, j \in 1..N : TEAMS[i].mi_base < TEAMS[j].mi_base => perf[i] < perf[j]
        /\ \A i \in 1..N : TEAMS[i].seed # NULL => TEAMS[i].performancePercentile = perf[i]

\* three entrants of three different baselines, the unseeded one not last in
\* file order and not lowest in rank
C26_Witness ==
  /\ Len(TEAMS) = 3
  /\ \A i, j \in 1..3 : i # j => TEAMS[i].mi_base # TEAMS[j].mi_base
  /\ \E i, j \in 1..3 :
       /\ TEAMS[i].seed = NULL /\ TEAMS[j].seed # NULL
       /\ TEAMS[j].mi_base < TEAMS[i].mi_base
       /\ TEAMS[j].performancePercentile = Div(ONE, 6)
  /\ \E i, j \in 1..3 : i < j /\ TEAMS[j].mi_base < TEAMS[i].mi_base

(***************************************************************************)
(* The two entrants given in the other order                               *)
(***************************************************************************)
\* int and res are the interaction totals and the result of the comparison
\* just returned, made with its two entrants exchanged
ExchangedFrom(int, res) ==
  /\ int.a = ret.interactions.b
  /\ int.b = ret.interactions.a
  /\ DOMAIN int.breakdown = DOMAIN ret.interactions.breakdown
  /\ \A tag \in DOMAIN int.breakdown :
       int.breakdown[tag] = 0 - ret.interactions.breakdown[tag]
  /\ res.miA = ret.miB
  /\ res.miB = ret.miA
  /\ res.diff = 0 - ret.diff
  /\ res.predicted = ret.predicted

Exchanged ==
  LET a == AsLoaded(ret.b)
      b == AsLoaded(ret.a)
  IN  \A int \in {computeInteractions(FIELD_STATS, FreshINT, a, b)} :
        ExchangedFrom(int,
          compareTeamsFrom(Built[LoadedFile].teams, ret.round, a, b, int).result)

\* C27: the comparison just returned for two different entrants, made with
\* the entrants in the other order, gives the interaction totals with the
\* sides exchanged, every category's adjustment going to the same entrant,
\* the same predicted winner and the negated margin.
C27_OrderIndependent == (ret.defined /\ ret.a # ret.b) => Exchanged

(***************************************************************************)
(* The Compare button                                                      *)
(***************************************************************************)
\* the rounds the legality check of the Compare handler accepts for the two
\* names
AcceptedRounds(a, b) ==
  {code \in Rounds : Includes(getPossibleRoundsForSeeds(SeedOf(TEAMS, a), SeedOf(TEAMS, b)), code)}

\* what the handler requires before it calls compareTeams
MayCompare ==
  /\ Len(RAW_ROWS) > 0
  /\ HasTeam(TEAMS, selectA) /\ HasTeam(TEAMS, selectB)
  /\ CURRENT_ROUND # "null"
  /\ ~SANDBOX_MODE => CURRENT_ROUND \in AcceptedRounds(selectA, selectB)

\* C28: a step that produces a Matchup Result or changes LAST_RESULT starts
\* with a dataset loaded, both selected names resolving, a round selected
\* and, with Sandbox mode off, that round among the possible rounds of the
\* two seeds; the result is for the selected entrants and round.  A click
\* that is refused produces no result and leaves the engine state,
\* LAST_RESULT included, as it was.
C28_CompareOnlyWhenLegal ==
  [][/\ (LAST_RESULT' # LAST_RESULT \/ (ret'.defined /\ ret' # ret)) =>
          /\ MayCompare
          /\ ret'.defined /\ LAST_RESULT' = ret'
          /\ {ret'.a, ret'.b} = {selectA, selectB}
          /\ ret'.round = CURRENT_ROUND
          /\ ~SANDBOX_MODE => ret'.round \in AcceptedRounds(ret'.a, ret'.b)
     /\ (ret' = Reported("alert") /\ ret' # ret) =>
          /\ ~MayCompare
          /\ UNCHANGED engine]_vars

\* a click refused for its round, Sandbox mode off, after a result was made
C28_Witness ==
  /\ ret = Reported("alert")
  /\ LAST_RESULT.defined
  /\ ~SANDBOX_MODE
  /\ compareEnabled
  /\ HasTeam(TEAMS, selectA) /\ HasTeam(TEAMS, selectB)
  /\ CURRENT_ROUND \notin AcceptedRounds(selectA, selectB)

(***************************************************************************)
(* Overlapping dataset loads                                               *)
(***************************************************************************)
Installed(f) ==
  /\ RAW_ROWS = RowsOf[f]
  /\ TEAMS = Built[f].teams
  /\ TEAM_LIST = Built[f].list
  /\ FIELD_STATS = Built[f].stats

\* C29: when two or more loads were requested through the dataset selector
\* and all of them have completed, the loaded state is that of the dataset
\* requested last, in whatever order the fetches completed.
C29_LastRequestedWins ==
  (Len(fetches) >= 2 /\ \A i \in DOMAIN fetches : fetches[i].pc = "done")
    => Installed(fetches[Len(fetches)].file)

(***************************************************************************)
(* The round selector and the legality check                               *)
(***************************************************************************)
OffersAccepted(seedless) ==
  (/\ ~SANDBOX_MODE
   /\ HasTeam(TEAMS, selectA) /\ HasTeam(TEAMS, selectB)
   /\ seedless \/ (SeedOf(TEAMS, selectA) # NULL /\ SeedOf(TEAMS, selectB) # NULL))
    => shown = AcceptedRounds(selectA, selectB)

\* C30: with Sandbox mode off and two entrants selected, the round options
\* left displayed are exactly the rounds the legality check of the Compare
\* handler accepts for them, entrants without a seed included.
C30_SelectorMatchesCheck == OffersAccepted(TRUE)

====
